---- MODULE Spec2Model ----
(***************************************************************************)
(* Deja Bounce: the Pong scene's system pipeline, its world, the commands  *)
(* the host drains and the pause overlay.                                  *)
(*                                                                         *)
(* Numbers.  The program computes in floats.  Here positions, sizes and    *)
(* velocities are fixed-point hundredths (FP(250) is 250.0), dt counts     *)
(* 1/1600 s (160 is 0.1 s, so that two scalings by 0.25 stay exact), and a *)
(* product or quotient that leaves the grid is truncated toward zero.      *)
(*                                                                         *)
(* Objects.  Velocity2D objects are mutable and shared by reference        *)
(* (ContinueCommand hands the saved object back to the entity), so they    *)
(* live in `heap` and the entities and the saved_* fields hold references; *)
(* reference 0 is None.                                                    *)
(***************************************************************************)
EXTENDS Integers, Sequences, FiniteSets, TLC

VARIABLES
    world,        \* PongWorld (scene.world)
    heap,         \* the Velocity2D objects, by reference
    ctx,          \* PongTickContext of the running tick: input_frame, dt, intent, draw_ops
    commands,     \* context.command_queue, oldest first
    audio,        \* sounds played by services.audio in the running tick
    capture,      \* services.capture flags
    scenes,       \* services.scenes: the scene stack, top last
    cpu,          \* the CpuPaddleController's own state: side, config, aim offset
    pc,           \* 0 between ticks, else the index in `systems` of the stage to run
    ran,          \* names of the stages run so far in the current (or last) tick
    pre,          \* world and heap as they were before the last stage or command ran
    start,        \* world and heap as they were when the current (or last) tick began
    frozen,       \* world and heap as they were just before the last Pause transition
    ticks,        \* ticks started so far
    cheated,      \* cheat sequences completed so far
    hits          \* paddle hits and reversals at a boundary so far, oldest first

vars ==
    <<world, heap, ctx, commands, audio, capture, scenes, cpu, pc, ran, pre, start, frozen,
      ticks, cheated, hits>>

----------------------------------------------------------------------------
(* Bounds of the model *)

\* viewport reported by the window service, in whole units
VW == 80
VH == 60
\* ticks the host drives
MaxTicks == 4
\* cheat sequences the player completes
MaxCheats == 1
\* Velocity2D objects alive at once (three live, three saved, one under construction)
NObj == 7
\* ticks the host drives in a session long enough to fill the trail buffer
MaxTrailTicks == 32

\* ticks of one rally
MaxRallyTicks == 8
\* a viewport wide enough for the ball to be out of the CPU's reaction distance
CpuVW == 300
CpuVH == 200

----------------------------------------------------------------------------
(* Arithmetic *)

FP(n) == n * 100

Abs(a) == IF a < 0 THEN -a ELSE a

Min(a, b) == IF a < b THEN a ELSE b

Max(a, b) == IF a > b THEN a ELSE b

\* float division and multiplication land on the grid, truncated toward zero
TruncDiv(a, b) == IF a >= 0 THEN a \div b ELSE -((-a) \div b)

\* Velocity2D.advance(x, y, dt): linear Euler step, same dt on both axes
advance(vel, x, y, dt) ==
    <<x + TruncDiv(vel.vx * dt, 1600), y + TruncDiv(vel.vy * dt, 1600)>>

\* Velocity2D.stop()
stop(h, ref) == [h EXCEPT ![ref] = [vx |-> 0, vy |-> 0]]

\* RectCollider.intersects: axis-aligned overlap of two entities' rectangles
intersects(a, b) ==
    /\ a.x < b.x + b.w
    /\ b.x < a.x + a.w
    /\ a.y < b.y + b.h
    /\ b.y < a.y + a.h

----------------------------------------------------------------------------
(* Velocity2D objects *)

Refs == 1..NObj

NoVel == [vx |-> 0, vy |-> 0]

\* the references the world holds
Held(w) ==
    {w.ball.vel, w.left_paddle.vel, w.right_paddle.vel,
     w.saved_ball_vel, w.saved_left_vel, w.saved_right_vel} \ {0}

\* Velocity2D(vx, vy): a fresh object, distinct from every object in `used`
NewRef(used) == CHOOSE r \in Refs : r \notin used /\ \A q \in Refs : q < r => q \in used

\* objects nothing refers to any more are forgotten
Collect(w, h) == [r \in Refs |-> IF r \in Held(w) THEN h[r] ELSE NoVel]

----------------------------------------------------------------------------
(* Entities, world and scene entry *)

\* deja_bounce.constants.PADDLE_SIZE, in whole units
PADDLE_SIZE == <<10, 30>>

\* Paddle.speed default
PaddleSpeed == 300

\* CpuConfig defaults
CpuMaxSpeed == 65
CpuDeadZone == 16
CpuReactionDistance == 180
CpuErrorMargin == 24

CpuConfig ==
    [max_speed |-> FP(CpuMaxSpeed), dead_zone |-> FP(CpuDeadZone),
     reaction_distance |-> FP(CpuReactionDistance), error_margin |-> FP(CpuErrorMargin)]

\* PongWorld.slow_mo_scale default, in hundredths (0.25)
SlowMoScale == 25

\* deque(maxlen=30)
TrailMaxLen == 30

\* aim offsets random.uniform(-m, m) can return, sampled
AimOffsets == {-CpuConfig.error_margin, 0, CpuConfig.error_margin}

ScoreState == [left |-> 0, right |-> 0]

\* PongScene.on_enter: the world as constructed, for a window of vw x vh units
\* and a controller whose config sets the right paddle's speed
PongWorld(vw, vh, cfg) ==
    LET pad_w == FP(PADDLE_SIZE[1])
        pad_h == FP(PADDLE_SIZE[2])
    IN [viewport |-> <<FP(vw), FP(vh)>>,
        left_paddle |-> [x |-> FP(20), y |-> TruncDiv(FP(vh), 2) - TruncDiv(pad_h, 2),
                         w |-> pad_w, h |-> pad_h, vel |-> 1, speed |-> FP(PaddleSpeed)],
        right_paddle |-> [x |-> FP(vw) - FP(20) - pad_w,
                          y |-> TruncDiv(FP(vh), 2) - TruncDiv(pad_h, 2),
                          w |-> pad_w, h |-> pad_h, vel |-> 2, speed |-> cfg.max_speed],
        ball |-> [x |-> TruncDiv(FP(vw), 2) - FP(5), y |-> TruncDiv(FP(vh), 2) - FP(5),
                  w |-> FP(10), h |-> FP(10), vel |-> 3],
        score |-> ScoreState,
        paused |-> FALSE,
        saved_ball_vel |-> 0, saved_left_vel |-> 0, saved_right_vel |-> 0,
        god_mode_p1 |-> FALSE, god_mode_p2 |-> FALSE,
        slow_mo |-> FALSE, slow_ball |-> FALSE, slow_mo_scale |-> SlowMoScale,
        trail_mode |-> FALSE, trail |-> <<>>]

\* the three Velocity2D objects on_enter constructs
PongHeap ==
    [r \in Refs |-> IF r = 3 THEN [vx |-> FP(-250), vy |-> FP(-200)] ELSE NoVel]

\* a tick context before its tick: PongTickContext(input_frame, dt, world, commands)
NoFrame == [keys_down |-> {}, keys_pressed |-> {}]

IdleCtx == [input_frame |-> NoFrame, dt |-> 0, intent |-> <<>>, draw_ops |-> <<>>]

----------------------------------------------------------------------------
(* The pipeline: the systems on_enter registers, and the order they run in *)

PongInputSystem_order == 10
PongHotkeysSystem_order == 13
\* a slip: the time-scale stage keyed after the hotkeys
PongTimeScaleSystem_order_late == PongHotkeysSystem_order + 1
PongTimeScaleSystem_order == 11
PongPauseSystem_order == 12
CpuIntentSystem_order == 15
PaddleSystem_order == 20
BallMovementSystem_order == 30
PongTrailCaptureSystem_order == 35
PongCollisionSystem_order == 40
PongRulesSystem_order == 50
PongRenderSystem_order == 100

\* self.systems.extend([...]) in on_enter, in the order written there
Registered ==
    << [name |-> "pong_input", order |-> PongInputSystem_order],
       [name |-> "pong_pause", order |-> PongPauseSystem_order],
       [name |-> "pong_hotkeys", order |-> PongHotkeysSystem_order],
       [name |-> "pong_time_scale", order |-> PongTimeScaleSystem_order],
       [name |-> "pong_cpu_intent", order |-> CpuIntentSystem_order],
       [name |-> "pong_paddles", order |-> PaddleSystem_order],
       [name |-> "pong_ball_move", order |-> BallMovementSystem_order],
       [name |-> "pong_trail_capture", order |-> PongTrailCaptureSystem_order],
       [name |-> "pong_collision", order |-> PongCollisionSystem_order],
       [name |-> "pong_rules", order |-> PongRulesSystem_order],
       [name |-> "pong_render", order |-> PongRenderSystem_order] >>

\* stable insertion of a system by its order key
RECURSIVE Insert(_, _)
Insert(sorted, sys) ==
    IF sorted = <<>> THEN <<sys>>
    ELSE IF sys.order < Head(sorted).order THEN <<sys>> \o sorted
    ELSE <<Head(sorted)>> \o Insert(Tail(sorted), sys)

RECURSIVE SortByOrder(_)
SortByOrder(list) ==
    IF list = <<>> THEN <<>>
    ELSE Insert(SortByOrder(SubSeq(list, 1, Len(list) - 1)), list[Len(list)])

\* SystemPipeline: the stages in the order step() runs them, ascending order key
systems == SortByOrder(Registered)

StageNames == [i \in 1..Len(systems) |-> systems[i].name]

----------------------------------------------------------------------------
(* The stages.  Each is the system's step(ctx) as a function of the machine *)
(* m = [world, heap, ctx, commands, audio] it reads and writes.             *)

Vel(m, ref) == m.heap[ref]

\* a slip: pause is read from the keys held down
build_intent_pause_while_held(c) ==
    LET down == c.input_frame.keys_down
        pressed == c.input_frame.keys_pressed
    IN [move_left_paddle |-> (IF "S" \in down THEN 1 ELSE 0) - (IF "W" \in down THEN 1 ELSE 0),
        move_right_paddle |->
            (IF "DOWN" \in down THEN 1 ELSE 0) - (IF "UP" \in down THEN 1 ELSE 0),
        pause |-> "ESCAPE" \in down,
        toggle_slow_mo |-> "S" \in pressed,
        toggle_trail |-> "T" \in pressed,
        screenshot |-> "F9" \in pressed,
        replay_recording |-> "F10" \in pressed,
        play_replay |-> "F11" \in pressed,
        video_recording |-> "F12" \in pressed]

\* PongInputSystem.build_intent
build_intent(c) ==
    LET down == c.input_frame.keys_down
        pressed == c.input_frame.keys_pressed
    IN [move_left_paddle |-> (IF "S" \in down THEN 1 ELSE 0) - (IF "W" \in down THEN 1 ELSE 0),
        move_right_paddle |->
            (IF "DOWN" \in down THEN 1 ELSE 0) - (IF "UP" \in down THEN 1 ELSE 0),
        pause |-> "ESCAPE" \in pressed,
        toggle_slow_mo |-> "S" \in pressed,
        toggle_trail |-> "T" \in pressed,
        screenshot |-> "F9" \in pressed,
        replay_recording |-> "F10" \in pressed,
        play_replay |-> "F11" \in pressed,
        video_recording |-> "F12" \in pressed]

\* PongIntent(move_left_paddle, move_right_paddle, pause): the other flags default
PongIntent(left, right, pause) ==
    [move_left_paddle |-> left, move_right_paddle |-> right, pause |-> pause,
     toggle_slow_mo |-> FALSE, toggle_trail |-> FALSE, screenshot |-> FALSE,
     replay_recording |-> FALSE, play_replay |-> FALSE, video_recording |-> FALSE]

PongInputSystem_step(m) == [m EXCEPT !.ctx.intent = <<build_intent(m.ctx)>>]

\* a slip: the paused guard is missing from the time-scale stage
PongTimeScaleSystem_step_while_paused(m) ==
    IF m.world.slow_mo
    THEN [m EXCEPT !.ctx.dt = TruncDiv(@ * m.world.slow_mo_scale, 100)]
    ELSE m

PongTimeScaleSystem_step(m) ==
    IF m.world.paused THEN m
    ELSE IF m.world.slow_mo
    THEN [m EXCEPT !.ctx.dt = TruncDiv(@ * m.world.slow_mo_scale, 100)]
    ELSE m

\* a slip: saved velocity objects left by an earlier pause are taken for the
\* snapshot as they are, no fresh copy being made
SaveVelocities_reusing_objects(m) ==
    LET w == m.world
        sb == NewRef(Held(w))
        w1 == [w EXCEPT !.paused = TRUE, !.saved_ball_vel = sb]
        sl == NewRef(Held(w1))
        w2 == [w1 EXCEPT !.saved_left_vel = sl]
        sr == NewRef(Held(w2))
        w3 == [w2 EXCEPT !.saved_right_vel = sr]
    IN IF w.saved_ball_vel # 0 THEN [m EXCEPT !.world.paused = TRUE]
       ELSE [m EXCEPT !.world = w3,
                      !.heap = [@ EXCEPT ![sb] = Vel(m, w.ball.vel),
                                         ![sl] = Vel(m, w.left_paddle.vel),
                                         ![sr] = Vel(m, w.right_paddle.vel)]]

\* PongPauseSystem.step, "save velocities ONCE": paused is set and the three
\* velocities are copied into fresh Velocity2D objects
SaveVelocities(m) ==
    LET w == m.world
        sb == NewRef(Held(w))
        w1 == [w EXCEPT !.paused = TRUE, !.saved_ball_vel = sb]
        sl == NewRef(Held(w1))
        w2 == [w1 EXCEPT !.saved_left_vel = sl]
        sr == NewRef(Held(w2))
        w3 == [w2 EXCEPT !.saved_right_vel = sr]
    IN [m EXCEPT !.world = w3,
                 !.heap = [@ EXCEPT ![sb] = Vel(m, w.ball.vel),
                                    ![sl] = Vel(m, w.left_paddle.vel),
                                    ![sr] = Vel(m, w.right_paddle.vel)]]

\* a slip: only the ball is frozen, the paddles keep their velocities
StopVelocities_ball_only(m) == [m EXCEPT !.heap = stop(@, m.world.ball.vel)]

\* PongPauseSystem.step, "freeze everything"
StopVelocities(m) ==
    LET w == m.world
    IN [m EXCEPT !.heap =
            stop(stop(stop(@, w.ball.vel), w.left_paddle.vel), w.right_paddle.vel)]

\* ctx.commands.push(PauseGameCommand())
PushPause(m) == [m EXCEPT !.commands = Append(@, "PauseGameCommand")]

\* a slip: the velocities are frozen before they are saved
Freeze_stop_first(m) == PushPause(SaveVelocities(StopVelocities(m)))

\* the Running -> Paused transition of PongPauseSystem.step
Freeze(m) == PushPause(StopVelocities(SaveVelocities(m)))

\* a slip: the "avoid re-triggering every frame" guard is missing
PongPauseSystem_step_retrigger(m) ==
    IF m.ctx.intent = <<>> \/ ~m.ctx.intent[1].pause THEN m ELSE Freeze(m)

PongPauseSystem_step(m) ==
    IF m.ctx.intent = <<>> \/ ~m.ctx.intent[1].pause THEN m
    ELSE IF m.world.paused THEN m
    ELSE Freeze(m)

\* the stage with a branch for toggle_slow_mo, which the code does not have
HotkeyCommands_with_slow_mo(intent, cap) ==
    (IF intent.toggle_trail THEN <<"ToggleTrailCommand">> ELSE <<>>)
    \o (IF intent.toggle_slow_mo THEN <<"ToggleSlowMoCommand">> ELSE <<>>)
    \o (IF intent.screenshot THEN <<"ScreenshotCommand">> ELSE <<>>)
    \o (IF ~intent.replay_recording THEN <<>>
        ELSE IF cap.replay_recording THEN <<"StopReplayRecordCommand">>
        ELSE (IF cap.replay_playing THEN <<"StopReplayPlayCommand">> ELSE <<>>)
             \o <<"StartReplayRecordCommand">>)
    \o (IF ~intent.play_replay THEN <<>>
        ELSE IF cap.replay_playing THEN <<"StopReplayPlayCommand">>
        ELSE (IF cap.replay_recording THEN <<"StopReplayRecordCommand">> ELSE <<>>)
             \o <<"StartReplayPlayCommand">>)
    \o (IF ~intent.video_recording THEN <<>>
        ELSE IF cap.video_recording THEN <<"StopVideoRecordCommand">>
        ELSE <<"StartVideoRecordCommand">>)

\* PongHotkeysSystem.step: the commands it pushes, in order
HotkeyCommands(intent, cap) ==
    (IF intent.toggle_trail THEN <<"ToggleTrailCommand">> ELSE <<>>)
    \o (IF intent.screenshot THEN <<"ScreenshotCommand">> ELSE <<>>)
    \o (IF ~intent.replay_recording THEN <<>>
        ELSE IF cap.replay_recording THEN <<"StopReplayRecordCommand">>
        ELSE (IF cap.replay_playing THEN <<"StopReplayPlayCommand">> ELSE <<>>)
             \o <<"StartReplayRecordCommand">>)
    \o (IF ~intent.play_replay THEN <<>>
        ELSE IF cap.replay_playing THEN <<"StopReplayPlayCommand">>
        ELSE (IF cap.replay_recording THEN <<"StopReplayRecordCommand">> ELSE <<>>)
             \o <<"StartReplayPlayCommand">>)
    \o (IF ~intent.video_recording THEN <<>>
        ELSE IF cap.video_recording THEN <<"StopVideoRecordCommand">>
        ELSE <<"StartVideoRecordCommand">>)

\* a slip: the stage toggles the trail itself and queues nothing for it
PongHotkeysSystem_step_toggles_directly(m, cap) ==
    IF m.ctx.intent = <<>> THEN m
    ELSE LET i == m.ctx.intent[1]
             on == ~m.world.trail_mode
         IN [m EXCEPT
               !.world = IF ~i.toggle_trail THEN @
                         ELSE [@ EXCEPT !.trail_mode = on,
                                        !.trail = IF on THEN @ ELSE <<>>],
               !.commands = @ \o HotkeyCommands([i EXCEPT !.toggle_trail = FALSE], cap)]

PongHotkeysSystem_step(m, cap) ==
    IF m.ctx.intent = <<>> THEN m
    ELSE [m EXCEPT !.commands = @ \o HotkeyCommands(m.ctx.intent[1], cap)]

\* a slip: the controller reacts whichever way the ball travels
compute_move_any_direction(c, w, h) ==
    LET ball == w.ball
        paddle == IF c.side = "RIGHT" THEN w.right_paddle ELSE w.left_paddle
        distance_x == IF c.side = "RIGHT"
                      THEN paddle.x - (ball.x + ball.w)
                      ELSE ball.x - (paddle.x + paddle.w)
        ball_center_y == ball.y + TruncDiv(ball.h, 2) + c.aim_offset_y
        paddle_center_y == paddle.y + TruncDiv(paddle.h, 2)
        diff == ball_center_y - paddle_center_y
    IN IF distance_x > c.config.reaction_distance THEN 0
       ELSE IF Abs(diff) < c.config.dead_zone THEN 0
       ELSE IF diff > 0 THEN 1 ELSE -1

\* a slip: the edge of the dead zone counts as inside it
compute_move_dead_zone_inclusive(c, w, h) ==
    LET ball == w.ball
        paddle == IF c.side = "RIGHT" THEN w.right_paddle ELSE w.left_paddle
        vx == h[ball.vel].vx
        distance_x == IF c.side = "RIGHT"
                      THEN paddle.x - (ball.x + ball.w)
                      ELSE ball.x - (paddle.x + paddle.w)
        ball_center_y == ball.y + TruncDiv(ball.h, 2) + c.aim_offset_y
        paddle_center_y == paddle.y + TruncDiv(paddle.h, 2)
        diff == ball_center_y - paddle_center_y
    IN IF c.side = "RIGHT" /\ vx <= 0 THEN 0
       ELSE IF c.side = "LEFT" /\ vx >= 0 THEN 0
       ELSE IF distance_x > c.config.reaction_distance THEN 0
       ELSE IF Abs(diff) <= c.config.dead_zone THEN 0
       ELSE IF diff > 0 THEN 1 ELSE -1

\* CpuPaddleController.compute_move
compute_move(c, w, h) ==
    LET ball == w.ball
        paddle == IF c.side = "RIGHT" THEN w.right_paddle ELSE w.left_paddle
        vx == h[ball.vel].vx
        distance_x == IF c.side = "RIGHT"
                      THEN paddle.x - (ball.x + ball.w)
                      ELSE ball.x - (paddle.x + paddle.w)
        ball_center_y == ball.y + TruncDiv(ball.h, 2) + c.aim_offset_y
        paddle_center_y == paddle.y + TruncDiv(paddle.h, 2)
        diff == ball_center_y - paddle_center_y
    IN IF c.side = "RIGHT" /\ vx <= 0 THEN 0
       ELSE IF c.side = "LEFT" /\ vx >= 0 THEN 0
       ELSE IF distance_x > c.config.reaction_distance THEN 0
       ELSE IF Abs(diff) < c.config.dead_zone THEN 0
       ELSE IF diff > 0 THEN 1 ELSE -1

\* a slip: a controller that stands still leaves the right axis to the keys
CpuIntentSystem_step_idle_yields(m, c) ==
    IF ~c.attached \/ m.ctx.intent = <<>> THEN m
    ELSE LET move == compute_move(c, m.world, m.heap)
             old == m.ctx.intent[1]
             right == IF move = 0 THEN old.move_right_paddle ELSE move
         IN [m EXCEPT !.ctx.intent = <<PongIntent(old.move_left_paddle, right, old.pause)>>]

\* a slip: the stage does not look whether a controller is attached
CpuIntentSystem_step_without_controller(m, c) ==
    IF m.ctx.intent = <<>> THEN m
    ELSE LET move == compute_move(c, m.world, m.heap)
             old == m.ctx.intent[1]
         IN [m EXCEPT !.ctx.intent = <<PongIntent(old.move_left_paddle, move, old.pause)>>]

CpuIntentSystem_step(m, c) ==
    IF ~c.attached \/ m.ctx.intent = <<>> THEN m
    ELSE LET move == compute_move(c, m.world, m.heap)
             old == m.ctx.intent[1]
         IN [m EXCEPT !.ctx.intent = <<PongIntent(old.move_left_paddle, move, old.pause)>>]

\* a slip: the paddle is moved but not clamped to the viewport
MovePaddle_unclamped(p, vel, vh, dt) == [p EXCEPT !.y = advance(vel, p.x, p.y, dt)[2]]

\* one paddle of PaddleSystem.step, after its vy was set: advance, clamp, reposition
MovePaddle(p, vel, vh, dt) ==
    LET ly == advance(vel, p.x, p.y, dt)[2]
    IN [p EXCEPT !.y = Max(0, Min(vh - p.h, ly))]

\* PaddleSystem.step past its guards: set both vy, move both paddles
MovePaddles(m) ==
    LET w == m.world
        vh == w.viewport[2]
        intent == m.ctx.intent[1]
        h1 == [m.heap EXCEPT
                 ![w.left_paddle.vel].vy = intent.move_left_paddle * w.left_paddle.speed]
        h2 == [h1 EXCEPT
                 ![w.right_paddle.vel].vy = intent.move_right_paddle * w.right_paddle.speed]
    IN [m EXCEPT !.heap = h2,
                 !.world.left_paddle = MovePaddle(@, h2[w.left_paddle.vel], vh, m.ctx.dt),
                 !.world.right_paddle = MovePaddle(@, h2[w.right_paddle.vel], vh, m.ctx.dt)]

\* a slip: the paused guard is missing
PaddleSystem_step_while_paused(m) ==
    IF m.ctx.intent = <<>> THEN m ELSE MovePaddles(m)

PaddleSystem_step(m) ==
    IF m.world.paused THEN m
    ELSE IF m.ctx.intent = <<>> THEN m
    ELSE MovePaddles(m)

\* a slip: the ball moves with the tick's dt whatever slow_ball says
BallMovementSystem_step_ignoring_slow_ball(m) ==
    IF m.world.paused THEN m
    ELSE LET w == m.world
             xy == advance(Vel(m, w.ball.vel), w.ball.x, w.ball.y, m.ctx.dt)
         IN [m EXCEPT !.world.ball.x = xy[1], !.world.ball.y = xy[2]]

BallMovementSystem_step(m) ==
    IF m.world.paused THEN m
    ELSE LET w == m.world
             ball_dt == IF w.slow_ball THEN TruncDiv(m.ctx.dt * w.slow_mo_scale, 100)
                        ELSE m.ctx.dt
             xy == advance(Vel(m, w.ball.vel), w.ball.x, w.ball.y, ball_dt)
         IN [m EXCEPT !.world.ball.x = xy[1], !.world.ball.y = xy[2]]

\* a slip: a full buffer gives up its newest entry, not its oldest
TrailAppend_evict_newest(trail, p) ==
    IF Len(trail) >= TrailMaxLen THEN Append(SubSeq(trail, 1, Len(trail) - 1), p)
    ELSE Append(trail, p)

\* deque.append on a deque(maxlen=TrailMaxLen)
TrailAppend(trail, p) ==
    IF Len(trail) >= TrailMaxLen THEN Append(Tail(trail), p) ELSE Append(trail, p)

PongTrailCaptureSystem_step(m) ==
    IF m.world.paused THEN m
    ELSE IF ~m.world.trail_mode THEN m
    ELSE [m EXCEPT !.world.trail = TrailAppend(@, <<m.world.ball.x, m.world.ball.y>>)]

\* int(v) of a viewport side
IntOf(v) == TruncDiv(v, 100) * 100

\* VerticalBounce(bounds).apply(ball): clamp back inside and negate vy;
\* yields [y, vy, bounced]
VerticalBounce(top, bottom, y, hgt, vy) ==
    IF y < top THEN [y |-> top, vy |-> -vy, bounced |-> TRUE]
    ELSE IF y + hgt > bottom THEN [y |-> bottom - hgt, vy |-> -vy, bounced |-> TRUE]
    ELSE [y |-> y, vy |-> vy, bounced |-> FALSE]

\* a slip: the hit slows the ball down, vx x 0.97
apply_paddle_influence_slow_down(ball, bvel, paddle, pvel) ==
    LET ball_center == ball.y + TruncDiv(ball.h, 2)
        paddle_center == paddle.y + TruncDiv(paddle.h, 2)
        offset == ball_center - paddle_center
        denom == IF paddle.h > 0 THEN TruncDiv(paddle.h, 2) ELSE FP(1)
        norm_num == Max(-denom, Min(denom, offset))
        new_vy == TruncDiv(norm_num * FP(220), denom) + TruncDiv(pvel.vy * 30, 100)
    IN [vx |-> TruncDiv(bvel.vx * 97, 100),
        vy |-> Max(-FP(400), Min(FP(400), new_vy))]

\* a slip: the hit does not speed the ball up
apply_paddle_influence_no_speedup(ball, bvel, paddle, pvel) ==
    LET ball_center == ball.y + TruncDiv(ball.h, 2)
        paddle_center == paddle.y + TruncDiv(paddle.h, 2)
        offset == ball_center - paddle_center
        denom == IF paddle.h > 0 THEN TruncDiv(paddle.h, 2) ELSE FP(1)
        norm_num == Max(-denom, Min(denom, offset))
        new_vy == TruncDiv(norm_num * FP(220), denom) + TruncDiv(pvel.vy * 30, 100)
    IN [vx |-> bvel.vx,
        vy |-> Max(-FP(400), Min(FP(400), new_vy))]

\* a slip: the ball's own vy is carried into the new one
apply_paddle_influence_keep_vy(ball, bvel, paddle, pvel) ==
    LET ball_center == ball.y + TruncDiv(ball.h, 2)
        paddle_center == paddle.y + TruncDiv(paddle.h, 2)
        offset == ball_center - paddle_center
        denom == IF paddle.h > 0 THEN TruncDiv(paddle.h, 2) ELSE FP(1)
        norm_num == Max(-denom, Min(denom, offset))
        new_vy == bvel.vy + TruncDiv(norm_num * FP(220), denom) + TruncDiv(pvel.vy * 30, 100)
    IN [vx |-> TruncDiv(bvel.vx * 103, 100),
        vy |-> Max(-FP(400), Min(FP(400), new_vy))]

\* PongCollisionSystem._apply_paddle_influence: the ball's velocity after the
\* hit, from the ball (already repositioned), the paddle and the two velocities
apply_paddle_influence(ball, bvel, paddle, pvel) ==
    LET ball_center == ball.y + TruncDiv(ball.h, 2)
        paddle_center == paddle.y + TruncDiv(paddle.h, 2)
        offset == ball_center - paddle_center
        denom == IF paddle.h > 0 THEN TruncDiv(paddle.h, 2) ELSE FP(1)
        \* norm = max(-1, min(1, offset / denom)), kept as the numerator over denom
        norm_num == Max(-denom, Min(denom, offset))
        new_vy == TruncDiv(norm_num * FP(220), denom) + TruncDiv(pvel.vy * 30, 100)
    IN [vx |-> TruncDiv(bvel.vx * 103, 100),
        vy |-> Max(-FP(400), Min(FP(400), new_vy))]

\* a slip: the top / bottom bounce is left out
PongCollisionSystem_step_no_wall_bounce(m) ==
    IF m.world.paused THEN m
    ELSE LET w == m.world
             vh == w.viewport[2]
             left == w.left_paddle
             right == w.right_paddle
             v0 == Vel(m, w.ball.vel)
             vb == [y |-> w.ball.y, vy |-> v0.vy, bounced |-> FALSE]
             ball1 == [w.ball EXCEPT !.y = vb.y]
             v1 == [v0 EXCEPT !.vy = vb.vy]
             a1 == IF vb.bounced THEN Append(m.audio, "wall_hit") ELSE m.audio
             hit_left == v1.vx < 0 /\ intersects(ball1, left)
             hit_right == v1.vx > 0 /\ intersects(ball1, right)
             ball2 == IF hit_left THEN [ball1 EXCEPT !.x = left.x + left.w]
                      ELSE IF hit_right THEN [ball1 EXCEPT !.x = right.x - ball1.w]
                      ELSE ball1
             v2 == IF hit_left
                   THEN apply_paddle_influence(ball2, [v1 EXCEPT !.vx = Abs(v1.vx)],
                                               left, Vel(m, left.vel))
                   ELSE IF hit_right
                   THEN apply_paddle_influence(ball2, [v1 EXCEPT !.vx = -Abs(v1.vx)],
                                               right, Vel(m, right.vel))
                   ELSE v1
             a2 == IF hit_left \/ hit_right THEN Append(a1, "paddle_hit") ELSE a1
         IN [m EXCEPT !.world.ball = ball2, !.heap[w.ball.vel] = v2, !.audio = a2]

\* a slip: each paddle is tested whichever way the ball travels
PongCollisionSystem_step_either_paddle(m) ==
    IF m.world.paused THEN m
    ELSE LET w == m.world
             vh == w.viewport[2]
             left == w.left_paddle
             right == w.right_paddle
             v0 == Vel(m, w.ball.vel)
             vb == VerticalBounce(0, IntOf(vh), w.ball.y, w.ball.h, v0.vy)
             ball1 == [w.ball EXCEPT !.y = vb.y]
             v1 == [v0 EXCEPT !.vy = vb.vy]
             a1 == IF vb.bounced THEN Append(m.audio, "wall_hit") ELSE m.audio
             hit_left == intersects(ball1, left)
             hit_right == ~intersects(ball1, left) /\ intersects(ball1, right)
             ball2 == IF hit_left THEN [ball1 EXCEPT !.x = left.x + left.w]
                      ELSE IF hit_right THEN [ball1 EXCEPT !.x = right.x - ball1.w]
                      ELSE ball1
             v2 == IF hit_left
                   THEN apply_paddle_influence(ball2, [v1 EXCEPT !.vx = Abs(v1.vx)],
                                               left, Vel(m, left.vel))
                   ELSE IF hit_right
                   THEN apply_paddle_influence(ball2, [v1 EXCEPT !.vx = -Abs(v1.vx)],
                                               right, Vel(m, right.vel))
                   ELSE v1
             a2 == IF hit_left \/ hit_right THEN Append(a1, "paddle_hit") ELSE a1
         IN [m EXCEPT !.world.ball = ball2, !.heap[w.ball.vel] = v2, !.audio = a2]

\* a slip: a hit leaves vx pointing the way the ball came
PongCollisionSystem_step_keep_direction(m) ==
    IF m.world.paused THEN m
    ELSE LET w == m.world
             vh == w.viewport[2]
             left == w.left_paddle
             right == w.right_paddle
             v0 == Vel(m, w.ball.vel)
             vb == VerticalBounce(0, IntOf(vh), w.ball.y, w.ball.h, v0.vy)
             ball1 == [w.ball EXCEPT !.y = vb.y]
             v1 == [v0 EXCEPT !.vy = vb.vy]
             a1 == IF vb.bounced THEN Append(m.audio, "wall_hit") ELSE m.audio
             hit_left == v1.vx < 0 /\ intersects(ball1, left)
             hit_right == v1.vx > 0 /\ intersects(ball1, right)
             ball2 == IF hit_left THEN [ball1 EXCEPT !.x = left.x + left.w]
                      ELSE IF hit_right THEN [ball1 EXCEPT !.x = right.x - ball1.w]
                      ELSE ball1
             v2 == IF hit_left
                   THEN apply_paddle_influence(ball2, v1, left, Vel(m, left.vel))
                   ELSE IF hit_right
                   THEN apply_paddle_influence(ball2, v1, right, Vel(m, right.vel))
                   ELSE v1
             a2 == IF hit_left \/ hit_right THEN Append(a1, "paddle_hit") ELSE a1
         IN [m EXCEPT !.world.ball = ball2, !.heap[w.ball.vel] = v2, !.audio = a2]

PongCollisionSystem_step(m) ==
    IF m.world.paused THEN m
    ELSE LET w == m.world
             vh == w.viewport[2]
             left == w.left_paddle
             right == w.right_paddle
             v0 == Vel(m, w.ball.vel)
             vb == VerticalBounce(0, IntOf(vh), w.ball.y, w.ball.h, v0.vy)
             ball1 == [w.ball EXCEPT !.y = vb.y]
             v1 == [v0 EXCEPT !.vy = vb.vy]
             a1 == IF vb.bounced THEN Append(m.audio, "wall_hit") ELSE m.audio
             hit_left == v1.vx < 0 /\ intersects(ball1, left)
             hit_right == v1.vx > 0 /\ intersects(ball1, right)
             ball2 == IF hit_left THEN [ball1 EXCEPT !.x = left.x + left.w]
                      ELSE IF hit_right THEN [ball1 EXCEPT !.x = right.x - ball1.w]
                      ELSE ball1
             v2 == IF hit_left
                   THEN apply_paddle_influence(ball2, [v1 EXCEPT !.vx = Abs(v1.vx)],
                                               left, Vel(m, left.vel))
                   ELSE IF hit_right
                   THEN apply_paddle_influence(ball2, [v1 EXCEPT !.vx = -Abs(v1.vx)],
                                               right, Vel(m, right.vel))
                   ELSE v1
             a2 == IF hit_left \/ hit_right THEN Append(a1, "paddle_hit") ELSE a1
         IN [m EXCEPT !.world.ball = ball2, !.heap[w.ball.vel] = v2, !.audio = a2]

\* a slip: the ball is put back at x = 0 but its direction is reversed, not forced
bounce_from_left_goal_negate(m) ==
    [m EXCEPT !.world.ball.x = 0,
              !.heap[m.world.ball.vel].vx = -@]

\* PongRulesSystem._bounce_from_left_goal
bounce_from_left_goal(m) ==
    LET vx == Vel(m, m.world.ball.vel).vx
    IN [m EXCEPT !.world.ball.x = 0,
                 !.heap[m.world.ball.vel].vx = IF Abs(vx) # 0 THEN Abs(vx) ELSE FP(250)]

\* a slip: the ball is put back at the right boundary but keeps its direction
bounce_from_right_goal_keep_sign(m) ==
    [m EXCEPT !.world.ball.x = m.world.viewport[1] - m.world.ball.w]

\* PongRulesSystem._bounce_from_right_goal
bounce_from_right_goal(m) ==
    LET vx == Vel(m, m.world.ball.vel).vx
        vw == m.world.viewport[1]
    IN [m EXCEPT !.world.ball.x = vw - m.world.ball.w,
                 !.heap[m.world.ball.vel].vx = -(IF Abs(vx) # 0 THEN Abs(vx) ELSE FP(250))]

\* a slip: the ball is served downwards, with vy = 200
Respawn_downwards(m, vx) ==
    LET w == m.world
        vw == w.viewport[1]
        vh == w.viewport[2]
        nv == NewRef(Held(w))
    IN [m EXCEPT !.world.ball.x = TruncDiv(vw, 2) - TruncDiv(w.ball.w, 2),
                 !.world.ball.y = TruncDiv(vh, 2) - TruncDiv(w.ball.h, 2),
                 !.world.ball.vel = nv,
                 !.heap[nv] = [vx |-> vx, vy |-> FP(200)]]

\* a slip: the ball is re-centred but keeps the velocity it left with
Respawn_keep_velocity(m, vx) ==
    LET w == m.world
    IN [m EXCEPT !.world.ball.x = TruncDiv(w.viewport[1], 2) - TruncDiv(w.ball.w, 2),
                 !.world.ball.y = TruncDiv(w.viewport[2], 2) - TruncDiv(w.ball.h, 2)]

\* the goal branch of PongRulesSystem.step: re-centre the ball and give it a
\* fresh Velocity2D(vx, -200.0)
Respawn(m, vx) ==
    LET w == m.world
        vw == w.viewport[1]
        vh == w.viewport[2]
        nv == NewRef(Held(w))
    IN [m EXCEPT !.world.ball.x = TruncDiv(vw, 2) - TruncDiv(w.ball.w, 2),
                 !.world.ball.y = TruncDiv(vh, 2) - TruncDiv(w.ball.h, 2),
                 !.world.ball.vel = nv,
                 !.heap[nv] = [vx |-> vx, vy |-> FP(-200)]]

\* a slip: the ball's width is left out of the left-exit test
OutLeft_ignoring_width(w) == w.ball.x < 0

\* the ball is wholly past the left boundary
OutLeft(w) == w.ball.x + w.ball.w < 0

\* a slip: the right exit waits for the ball to be a further width out
OutRight_a_width_late(w) == w.ball.x > w.viewport[1] + w.ball.w

\* the ball is past the right boundary
OutRight(w) == w.ball.x > w.viewport[1]

\* a slip: a left exit is counted for both sides
PongRulesSystem_step_both_sides(m) ==
    IF m.world.paused THEN m
    ELSE LET w == m.world
         IN IF OutLeft(w)
            THEN IF w.god_mode_p1 THEN bounce_from_left_goal(m)
                 ELSE Respawn([m EXCEPT !.world.score.right = @ + 1,
                                        !.world.score.left = @ + 1], FP(250))
            ELSE IF OutRight(w)
            THEN IF w.god_mode_p2 THEN bounce_from_right_goal(m)
                 ELSE Respawn([m EXCEPT !.world.score.left = @ + 1], FP(-250))
            ELSE m

PongRulesSystem_step(m) ==
    IF m.world.paused THEN m
    ELSE LET w == m.world
         IN IF OutLeft(w)
            THEN IF w.god_mode_p1 THEN bounce_from_left_goal(m)
                 ELSE Respawn([m EXCEPT !.world.score.right = @ + 1], FP(250))
            ELSE IF OutRight(w)
            THEN IF w.god_mode_p2 THEN bounce_from_right_goal(m)
                 ELSE Respawn([m EXCEPT !.world.score.left = @ + 1], FP(-250))
            ELSE m

\* a slip: like the movement stages, the render stage returns at once when paused
PongRenderSystem_step_skip_paused(m) ==
    IF m.world.paused THEN m
    ELSE [m EXCEPT !.ctx.draw_ops =
            <<"DrawCenterLine", "DrawLeftPaddle", "DrawRightPaddle",
              "DrawTrail", "DrawBall", "DrawScore">>]

\* PongRenderSystem.step: the draw calls, in order
PongRenderSystem_step(m) ==
    [m EXCEPT !.ctx.draw_ops =
        <<"DrawCenterLine", "DrawLeftPaddle", "DrawRightPaddle",
          "DrawTrail", "DrawBall", "DrawScore">>]

\* the step(ctx) of the system called `name`
StageStep(name, m, cap, c) ==
    CASE name = "pong_input" -> PongInputSystem_step(m)
      [] name = "pong_time_scale" -> PongTimeScaleSystem_step(m)
      [] name = "pong_pause" -> PongPauseSystem_step(m)
      [] name = "pong_hotkeys" -> PongHotkeysSystem_step(m, cap)
      [] name = "pong_cpu_intent" -> CpuIntentSystem_step(m, c)
      [] name = "pong_paddles" -> PaddleSystem_step(m)
      [] name = "pong_ball_move" -> BallMovementSystem_step(m)
      [] name = "pong_trail_capture" -> PongTrailCaptureSystem_step(m)
      [] name = "pong_collision" -> PongCollisionSystem_step(m)
      [] name = "pong_rules" -> PongRulesSystem_step(m)
      [] name = "pong_render" -> PongRenderSystem_step(m)

----------------------------------------------------------------------------
(* Commands, as the host executes them when it drains the queue *)

\* a slip: the scene is resumed without restoring the saved velocities
ContinueCommand_execute_no_restore(w, h, sc) ==
    [world |-> [w EXCEPT !.paused = FALSE], heap |-> h, scenes |-> SubSeq(sc, 1, Len(sc) - 1)]

\* ContinueCommand.execute
ContinueCommand_execute(w, h, sc) ==
    LET w1 == [w EXCEPT !.paused = FALSE]
        w2 == IF w1.saved_ball_vel # 0 THEN [w1 EXCEPT !.ball.vel = w1.saved_ball_vel] ELSE w1
        w3 == IF w2.saved_left_vel # 0
              THEN [w2 EXCEPT !.left_paddle.vel = w2.saved_left_vel] ELSE w2
        w4 == IF w3.saved_right_vel # 0
              THEN [w3 EXCEPT !.right_paddle.vel = w3.saved_right_vel] ELSE w3
    IN [world |-> w4, heap |-> h, scenes |-> SubSeq(sc, 1, Len(sc) - 1)]

\* a slip: toggling god mode also starts the score over
GodModeCommand_execute_reset(w, player) ==
    IF player = "P1" THEN [w EXCEPT !.god_mode_p1 = ~@, !.score = ScoreState]
    ELSE IF player = "P2" THEN [w EXCEPT !.god_mode_p2 = ~@, !.score = ScoreState]
    ELSE w

\* GodModeCommand.execute
GodModeCommand_execute(w, player) ==
    IF player = "P1" THEN [w EXCEPT !.god_mode_p1 = ~@]
    ELSE IF player = "P2" THEN [w EXCEPT !.god_mode_p2 = ~@]
    ELSE w

\* SlowMoCommand.execute
SlowMoCommand_execute(w) == [w EXCEPT !.slow_ball = ~@]

\* ToggleSlowMoCommand.execute
ToggleSlowMoCommand_execute(w) == [w EXCEPT !.slow_mo = ~@]

\* a slip: the trail is kept when trail mode goes off
ToggleTrailCommand_execute_keep(w) == [w EXCEPT !.trail_mode = ~@]

\* ToggleTrailCommand.execute
ToggleTrailCommand_execute(w) ==
    LET w1 == [w EXCEPT !.trail_mode = ~@]
    IN IF ~w1.trail_mode THEN [w1 EXCEPT !.trail = <<>>] ELSE w1

\* the capture service after one of the engine's start/stop commands
CaptureAfter(cap, cmd) ==
    CASE cmd = "StartReplayRecordCommand" -> [cap EXCEPT !.replay_recording = TRUE]
      [] cmd = "StopReplayRecordCommand" -> [cap EXCEPT !.replay_recording = FALSE]
      [] cmd = "StartReplayPlayCommand" -> [cap EXCEPT !.replay_playing = TRUE]
      [] cmd = "StopReplayPlayCommand" -> [cap EXCEPT !.replay_playing = FALSE]
      [] cmd = "StartVideoRecordCommand" -> [cap EXCEPT !.video_recording = TRUE]
      [] cmd = "StopVideoRecordCommand" -> [cap EXCEPT !.video_recording = FALSE]
      [] OTHER -> cap

\* Command.execute(context) for the command called `cmd`:
\* the world, heap, scene stack and capture flags it leaves
Execute(cmd, w, h, sc, cap) ==
    LET same == [world |-> w, heap |-> h, scenes |-> sc]
        r == CASE cmd = "PauseGameCommand" -> [same EXCEPT !.scenes = Append(sc, "pause")]
               [] cmd = "ContinueCommand" -> ContinueCommand_execute(w, h, sc)
               [] cmd = "BackToMenuCommand" -> [same EXCEPT !.scenes = <<"menu">>]
               [] cmd = "GodModeCommand_P1" ->
                      [same EXCEPT !.world = GodModeCommand_execute(w, "P1")]
               [] cmd = "SlowMoCommand" -> [same EXCEPT !.world = SlowMoCommand_execute(w)]
               [] cmd = "ToggleSlowMoCommand" ->
                      [same EXCEPT !.world = ToggleSlowMoCommand_execute(w)]
               [] cmd = "ToggleTrailCommand" ->
                      [same EXCEPT !.world = ToggleTrailCommand_execute(w)]
               [] OTHER -> same
    IN [world |-> r.world, heap |-> Collect(r.world, r.heap), scenes |-> r.scenes,
        capture |-> CaptureAfter(cap, cmd)]

----------------------------------------------------------------------------
(* What the host and the player can do *)

\* the input snapshots the host passes to tick()
DownSets == {{}, {"W"}, {"UP"}}

PressedSets == {{}, {"ESCAPE"}, {"T"}}

InputFrames ==
    {[keys_down |-> d, keys_pressed |-> {}] : d \in DownSets}
    \cup {[keys_down |-> {}, keys_pressed |-> p] : p \in PressedSets}
    \cup {[keys_down |-> {"W"}, keys_pressed |-> {"ESCAPE"}]}

\* the dt values the host passes to tick(), in 1/1600 s
DtChoices == {160}

\* the cheats on_enter registers, by the command their factory makes
Cheats == {"GodModeCommand_P1", "SlowMoCommand"}

\* the pause scene's menu items, by their command
PauseMenuItems == {"ContinueCommand", "BackToMenuCommand"}

Top(sc) == sc[Len(sc)]

\* the world, heap and queue as they are now, tagged with what ran next
Snapshot(op) ==
    [world |-> world, heap |-> heap, commands |-> commands, intent |-> <<>>, dt |-> 0,
     earlier |-> <<>>, op |-> op]

\* the same before a stage, with the intent the stage is handed
StageSnapshot(op) == [Snapshot(op) EXCEPT !.intent = ctx.intent, !.dt = ctx.dt]

\* the same just before a Pause transition, with the velocities the Pause
\* transition before it, if any, had found
PauseSnapshot(op) ==
    [Snapshot(op) EXCEPT !.earlier =
        IF frozen.op = "on_enter" THEN <<>>
        ELSE <<<<frozen.heap[frozen.world.ball.vel],
                 frozen.heap[frozen.world.left_paddle.vel],
                 frozen.heap[frozen.world.right_paddle.vel]>>>>]

\* the same when a tick begins, with the dt the host passes
TickSnapshot(dt) == [Snapshot("tick") EXCEPT !.dt = dt]

Init ==
    /\ world = PongWorld(VW, VH, CpuConfig)
    /\ heap = PongHeap
    /\ ctx = IdleCtx
    /\ commands = <<>>
    /\ audio = <<>>
    /\ capture = [replay_recording |-> FALSE, replay_playing |-> FALSE,
                  video_recording |-> FALSE]
    /\ scenes = <<"pong">>
    /\ \E off \in AimOffsets :
         cpu = [attached |-> TRUE, side |-> "RIGHT", config |-> CpuConfig,
                aim_offset_y |-> off]
    /\ pc = 0
    /\ ran = <<>>
    /\ pre = Snapshot("on_enter")
    /\ start = Snapshot("on_enter")
    /\ frozen = Snapshot("on_enter")
    /\ ticks = 0
    /\ cheated = 0
    /\ hits = <<>>

\* PongScene.tick(input_frame, dt) up to the pipeline's first stage, for a host
\* that passes one of `frames` and one of `dts` and drives at most `max` ticks
TickWith(frames, dts, max) ==
    /\ pc = 0
    /\ commands = <<>>
    /\ "pong" \in {scenes[i] : i \in 1..Len(scenes)}
    /\ ticks < max
    /\ \E f \in frames, d \in dts :
         ctx' = [input_frame |-> f, dt |-> d, intent |-> <<>>, draw_ops |-> <<>>]
    /\ audio' = <<>>
    /\ ran' = <<>>
    /\ start' = TickSnapshot(ctx'.dt)
    /\ pre' = Snapshot("tick")
    /\ pc' = 1
    /\ ticks' = ticks + 1
    /\ UNCHANGED <<world, heap, commands, capture, scenes, cpu, frozen, cheated, hits>>

\* the same for a host that passes one of DtChoices
Tick(frames, max) == TickWith(frames, DtChoices, max)

StartTick == Tick(InputFrames, MaxTicks)

\* what stage `name` of tick t did to the ball, from the machine before (m)
\* and after it (m2): a hit on the left or the right paddle, told by the
\* "paddle_hit" sound and the edge the ball was put against, or a reversal of
\* vx by the Rules stage at the left or the right boundary
Events(name, m, m2, t) ==
    LET vx0 == m.heap[m.world.ball.vel].vx
        vx1 == m2.heap[m2.world.ball.vel].vx
        left == m2.world.left_paddle
    IN IF /\ name = "pong_collision"
          /\ Len(m2.audio) > Len(m.audio)
          /\ m2.audio[Len(m2.audio)] = "paddle_hit"
       THEN <<[kind |-> IF m2.world.ball.x = left.x + left.w THEN "LEFT" ELSE "RIGHT",
               tick |-> t]>>
       ELSE IF name = "pong_rules" /\ vx0 * vx1 < 0
       THEN <<[kind |-> IF m.world.ball.x + m.world.ball.w < 0 THEN "TURN_LEFT"
                        ELSE "TURN_RIGHT",
               tick |-> t]>>
       ELSE <<>>

\* SystemPipeline.step: the next stage of the running tick
RunStage ==
    /\ pc \in 1..Len(systems)
    /\ LET name == systems[pc].name
           m == [world |-> world, heap |-> heap, ctx |-> ctx,
                 commands |-> commands, audio |-> audio]
           m2 == StageStep(name, m, capture, cpu)
       IN /\ world' = m2.world
          /\ heap' = Collect(m2.world, m2.heap)
          /\ ctx' = m2.ctx
          /\ commands' = m2.commands
          /\ audio' = m2.audio
          /\ ran' = Append(ran, name)
          /\ pre' = StageSnapshot(name)
          /\ frozen' = IF ~world.paused /\ m2.world.paused THEN PauseSnapshot(name)
                        ELSE frozen
    /\ pc' = IF pc = Len(systems) THEN 0 ELSE pc + 1
    /\ hits' = hits \o Events(systems[pc].name,
                                [world |-> world, heap |-> heap, audio |-> audio],
                                [world |-> world', heap |-> heap', audio |-> audio'], ticks)
    /\ UNCHANGED <<capture, scenes, cpu, start, ticks, cheated>>

\* the host drains the command queue after the tick, oldest command first
Drain ==
    /\ pc = 0
    /\ commands # <<>>
    /\ LET r == Execute(Head(commands), world, heap, scenes, capture)
       IN /\ world' = r.world
          /\ heap' = r.heap
          /\ scenes' = r.scenes
          /\ capture' = r.capture
    /\ commands' = Tail(commands)
    /\ pre' = Snapshot(Head(commands))
    /\ UNCHANGED <<ctx, audio, cpu, pc, ran, start, frozen, ticks, cheated, hits>>

\* the player completes a registered cheat sequence: its command is queued
Cheat ==
    /\ pc = 0
    /\ commands = <<>>
    /\ Top(scenes) = "pong"
    /\ cheated < MaxCheats
    /\ \E c \in Cheats : commands' = <<c>>
    /\ cheated' = cheated + 1
    /\ UNCHANGED <<world, heap, ctx, audio, capture, scenes, cpu, pc, ran, pre, start, frozen,
                   ticks, hits>>

\* the player picks an item of the pause overlay's menu: its command is queued
PauseMenu ==
    /\ pc = 0
    /\ commands = <<>>
    /\ Top(scenes) = "pause"
    /\ \E c \in PauseMenuItems : commands' = <<c>>
    /\ UNCHANGED <<world, heap, ctx, audio, capture, scenes, cpu, pc, ran, pre, start, frozen,
                   ticks, cheated, hits>>

Next == StartTick \/ RunStage \/ Drain \/ Cheat \/ PauseMenu

Spec == Init /\ [][Next]_vars

----------------------------------------------------------------------------
(* The Rules stage on its own: a tick about to run PongRulesSystem.step on   *)
(* a world whose ball is anywhere around the field, with any velocity, any   *)
(* god-mode flags and score, running or paused.                              *)

\* ball x, in whole units: inside, on and beyond both boundaries
RulesBallXs == {-30, -11, -10, -1, 0, 35, VW - 10, VW, VW + 1, VW + 30}

\* ball velocities, in whole units per second
RulesBallVels == {<<-250, -200>>, <<250, -200>>, <<-318, 150>>, <<273, 400>>, <<0, 120>>}

RulesScores == {<<0, 0>>, <<0, 1>>, <<2, 0>>}

StageIndex(name) == CHOOSE i \in 1..Len(systems) : systems[i].name = name

InitRules ==
    /\ \E x \in RulesBallXs, v \in RulesBallVels, sc \in RulesScores, g1, g2, pz \in BOOLEAN :
         LET w0 == [PongWorld(VW, VH, CpuConfig) EXCEPT
                       !.ball.x = FP(x),
                       !.god_mode_p1 = g1, !.god_mode_p2 = g2,
                       !.score = [left |-> sc[1], right |-> sc[2]]]
             h0 == [PongHeap EXCEPT ![w0.ball.vel] = [vx |-> FP(v[1]), vy |-> FP(v[2])]]
             m0 == [world |-> w0, heap |-> h0, ctx |-> IdleCtx, commands |-> <<>>,
                    audio |-> <<>>]
             m1 == IF pz THEN Freeze(m0) ELSE m0
         IN /\ world = m1.world
            /\ heap = m1.heap
            /\ scenes = IF pz THEN <<"pong", "pause">> ELSE <<"pong">>
    /\ ctx = [input_frame |-> NoFrame, dt |-> 160,
              intent |-> <<PongIntent(0, 0, FALSE)>>, draw_ops |-> <<>>]
    /\ commands = <<>>
    /\ audio = <<>>
    /\ capture = [replay_recording |-> FALSE, replay_playing |-> FALSE,
                  video_recording |-> FALSE]
    /\ cpu = [attached |-> TRUE, side |-> "RIGHT", config |-> CpuConfig, aim_offset_y |-> 0]
    /\ pc = StageIndex("pong_rules")
    /\ ran = SubSeq(StageNames, 1, pc - 1)
    /\ pre = Snapshot("pong_collision")
    /\ start = Snapshot("tick")
    /\ frozen = Snapshot("on_enter")
    /\ ticks = 1
    /\ cheated = 0
    /\ hits = <<>>

SpecRules == InitRules /\ [][RunStage]_vars

----------------------------------------------------------------------------
(* A long session from scene entry: no paddle input, the trail key now and   *)
(* then, enough ticks to fill the trail buffer and overflow it.              *)

TrailFrames == {NoFrame, [keys_down |-> {}, keys_pressed |-> {"T"}]}

StartTrailTick == Tick(TrailFrames, MaxTrailTicks)

NextTrail == StartTrailTick \/ RunStage \/ Drain

SpecTrail == Init /\ [][NextTrail]_vars

----------------------------------------------------------------------------
(* The CPU controller over its inputs: one tick on a wide field, the ball    *)
(* placed relative to the controlled paddle, the controller on either side.  *)

\* horizontal gap between ball and paddle on the reacting side, in hundredths:
\* beyond, at and within the reaction distance, and overlapping the paddle
CpuGaps == {CpuConfig.reaction_distance + 1, CpuConfig.reaction_distance, FP(50), -FP(5)}

\* (ball centre y + aim offset) - paddle centre y, in hundredths: around both
\* edges of the dead zone
CpuDiffs ==
    {-CpuConfig.dead_zone - 1, -CpuConfig.dead_zone, -CpuConfig.dead_zone + 1, 0,
     CpuConfig.dead_zone - 1, CpuConfig.dead_zone, CpuConfig.dead_zone + 1}

\* ball vx, in whole units per second
CpuBallVxs == {-250, 0, 250}

\* input snapshots that set every field of the intent
CpuFrames ==
    {NoFrame,
     [keys_down |-> {"UP"}, keys_pressed |-> {"T"}],
     [keys_down |-> {"W", "DOWN"}, keys_pressed |-> {"S", "F9"}],
     [keys_down |-> {"S"}, keys_pressed |-> {"ESCAPE", "F10", "F11", "F12"}]}

\* CpuPaddleController(paddle, ball, side=side, config=cfg) on a fresh world:
\* the controlled paddle takes the config's speed
CpuWorld(side, cfg) ==
    LET w == PongWorld(CpuVW, CpuVH, cfg)
    IN IF side = "RIGHT" THEN w
       ELSE [w EXCEPT !.left_paddle.speed = cfg.max_speed,
                      !.right_paddle.speed = FP(PaddleSpeed)]

InitCpu ==
    /\ \E side \in {"RIGHT", "LEFT"}, gap \in CpuGaps, d \in CpuDiffs, off \in AimOffsets,
          vx \in CpuBallVxs :
         LET w0 == CpuWorld(side, CpuConfig)
             paddle == IF side = "RIGHT" THEN w0.right_paddle ELSE w0.left_paddle
             bx == IF side = "RIGHT" THEN paddle.x - gap - w0.ball.w
                   ELSE paddle.x + paddle.w + gap
             by == paddle.y + TruncDiv(paddle.h, 2) - TruncDiv(w0.ball.h, 2) - off + d
         IN /\ world = [w0 EXCEPT !.ball.x = bx, !.ball.y = by]
            /\ heap = [PongHeap EXCEPT ![w0.ball.vel] = [vx |-> FP(vx), vy |-> FP(-200)]]
            /\ cpu = [attached |-> TRUE, side |-> side, config |-> CpuConfig,
                      aim_offset_y |-> off]
    /\ \E f \in CpuFrames :
         ctx = [input_frame |-> f, dt |-> 160, intent |-> <<>>, draw_ops |-> <<>>]
    /\ commands = <<>>
    /\ audio = <<>>
    /\ capture = [replay_recording |-> FALSE, replay_playing |-> FALSE,
                  video_recording |-> FALSE]
    /\ scenes = <<"pong">>
    /\ pc = 1
    /\ ran = <<>>
    /\ pre = Snapshot("tick")
    /\ start = Snapshot("tick")
    /\ frozen = Snapshot("on_enter")
    /\ ticks = 1
    /\ cheated = 0
    /\ hits = <<>>

SpecCpu == InitCpu /\ [][RunStage]_vars

----------------------------------------------------------------------------------------------------------------------------------------
(* Paddle movement, ball movement and collision on their own: a tick about   *)
(* to run PaddleSystem.step with the ball between the paddles, against one,  *)
(* over one or near a wall, for a short, a medium and a long frame.          *)

\* ball x, in whole units: over the left paddle, flush against it, just off
\* it, the centre, just off the right paddle, flush against it, over it
CollBallXs == {25, 30, 31, (VW \div 2) - 5, VW - 41, VW - 40, VW - 35}

\* ball y, in whole units: near the top wall, the centre, near the bottom wall
CollBallYs == {2, (VH \div 2) - 5, VH - 12}

\* ball velocities, in whole units per second
CollBallVels == {-250, -100, 0, 100, 250} \X {-200, 0, 200}

\* paddle y, in whole units: against the top wall, and where on_enter puts it
CollPaddleYs == {0, (VH \div 2) - (PADDLE_SIZE[2] \div 2)}

\* paddle heights, in whole units: PADDLE_SIZE's, and a degenerate paddle
CollPaddleHeights == {PADDLE_SIZE[2], 0}

\* the two move axes of the intent the Paddle stage is handed
CollMoves == {<<0, 0>>, <<-1, 1>>, <<1, -1>>}

\* frame times, in 1/1600 s: 0.01 s, 0.05 s, 0.1 s
CollDts == {16, 80, 160}

\* the tick about to run PaddleSystem.step, with paddles of one of `heights`
CollisionTick(heights) ==
    /\ \E x \in CollBallXs, y \in CollBallYs, v \in CollBallVels, py \in CollPaddleYs,
          ph \in heights :
         LET w0 == PongWorld(VW, VH, CpuConfig)
         IN /\ world = [w0 EXCEPT !.ball.x = FP(x), !.ball.y = FP(y),
                                  !.left_paddle.y = FP(py), !.right_paddle.y = FP(py),
                                  !.left_paddle.h = FP(ph), !.right_paddle.h = FP(ph)]
            /\ heap = [PongHeap EXCEPT ![w0.ball.vel] = [vx |-> FP(v[1]), vy |-> FP(v[2])]]
    /\ \E d \in CollDts, mv \in CollMoves :
         ctx = [input_frame |-> NoFrame, dt |-> d,
                intent |-> <<PongIntent(mv[1], mv[2], FALSE)>>, draw_ops |-> <<>>]
    /\ commands = <<>>
    /\ audio = <<>>
    /\ capture = [replay_recording |-> FALSE, replay_playing |-> FALSE,
                  video_recording |-> FALSE]
    /\ scenes = <<"pong">>
    /\ cpu = [attached |-> TRUE, side |-> "RIGHT", config |-> CpuConfig, aim_offset_y |-> 0]
    /\ pc = StageIndex("pong_paddles")
    /\ ran = SubSeq(StageNames, 1, pc - 1)
    /\ pre = Snapshot("pong_cpu_intent")
    /\ start = Snapshot("tick")
    /\ frozen = Snapshot("on_enter")
    /\ ticks = 1
    /\ cheated = 0
    /\ hits = <<>>

InitCollision == CollisionTick({PADDLE_SIZE[2]})

SpecCollision == InitCollision /\ [][RunStage]_vars

\* the same with the degenerate paddle among the inputs
InitDegenerate == CollisionTick(CollPaddleHeights)

SpecDegenerate == InitDegenerate /\ [][RunStage]_vars

----------------------------------------------------------------------------
(* Slow motion: one whole tick on a world with either slow-motion flag on or *)
(* off, running or paused, for two frame times.                              *)

\* frame times, in 1/1600 s: 0.1 s and 0.01 s
SlowDts == {160, 16}

SlowFrames ==
    {NoFrame,
     [keys_down |-> {"W"}, keys_pressed |-> {}],
     [keys_down |-> {"S"}, keys_pressed |-> {"S"}],
     [keys_down |-> {"W"}, keys_pressed |-> {"ESCAPE"}]}

\* ball velocities, in whole units per second
SlowBallVels == {<<-250, -200>>, <<120, 40>>}

InitSlow ==
    /\ \E sm, sb, pz \in BOOLEAN, v \in SlowBallVels :
         LET w0 == [PongWorld(VW, VH, CpuConfig) EXCEPT !.slow_mo = sm, !.slow_ball = sb]
             h0 == [PongHeap EXCEPT ![w0.ball.vel] = [vx |-> FP(v[1]), vy |-> FP(v[2])]]
             m0 == [world |-> w0, heap |-> h0, ctx |-> IdleCtx, commands |-> <<>>,
                    audio |-> <<>>]
             m1 == IF pz THEN Freeze(m0) ELSE m0
         IN /\ world = m1.world
            /\ heap = m1.heap
            /\ scenes = IF pz THEN <<"pong", "pause">> ELSE <<"pong">>
    /\ \E f \in SlowFrames, d \in SlowDts :
         ctx = [input_frame |-> f, dt |-> d, intent |-> <<>>, draw_ops |-> <<>>]
    /\ commands = <<>>
    /\ audio = <<>>
    /\ capture = [replay_recording |-> FALSE, replay_playing |-> FALSE,
                  video_recording |-> FALSE]
    /\ cpu = [attached |-> TRUE, side |-> "RIGHT", config |-> CpuConfig, aim_offset_y |-> 0]
    /\ pc = 1
    /\ ran = <<>>
    /\ pre = Snapshot("tick")
    /\ start = TickSnapshot(ctx.dt)
    /\ frozen = Snapshot("on_enter")
    /\ ticks = 1
    /\ cheated = 0
    /\ hits = <<>>

SpecSlow == InitSlow /\ [][RunStage]_vars

----------------------------------------------------------------------------
(* Input: one whole tick of a fresh game for each input snapshot, keys held  *)
(* together and keys held without having been pressed in the frame included. *)

KeysDownSets ==
    {{}, {"W"}, {"S"}, {"W", "S"}, {"UP"}, {"DOWN"}, {"UP", "DOWN"},
     {"W", "S", "ESCAPE", "T"}, {"S", "UP", "F9", "F10", "F11", "F12"}}

KeysPressedSets ==
    {{}, {"ESCAPE"}, {"S"}, {"T"}, {"F9"}, {"F10"}, {"F11"}, {"F12"}, {"W", "UP"}}

KeyFrames == {[keys_down |-> d, keys_pressed |-> p] : d \in KeysDownSets, p \in KeysPressedSets}

InitInput ==
    /\ world = PongWorld(VW, VH, CpuConfig)
    /\ heap = PongHeap
    /\ scenes = <<"pong">>
    /\ \E f \in KeyFrames, d \in DtChoices :
         ctx = [input_frame |-> f, dt |-> d, intent |-> <<>>, draw_ops |-> <<>>]
    /\ commands = <<>>
    /\ audio = <<>>
    /\ capture = [replay_recording |-> FALSE, replay_playing |-> FALSE,
                  video_recording |-> FALSE]
    /\ cpu = [attached |-> TRUE, side |-> "RIGHT", config |-> CpuConfig, aim_offset_y |-> 0]
    /\ pc = 1
    /\ ran = <<>>
    /\ pre = Snapshot("tick")
    /\ start = TickSnapshot(ctx.dt)
    /\ frozen = Snapshot("on_enter")
    /\ ticks = 1
    /\ cheated = 0
    /\ hits = <<>>

SpecInput == InitInput /\ [][RunStage]_vars

----------------------------------------------------------------------------
(* Replay hotkeys: the game with the record (F10) and play (F11) keys        *)
(* pressed alone or together, the host draining the queue after each tick.   *)

ReplayFrames ==
    {NoFrame,
     [keys_down |-> {"F10"}, keys_pressed |-> {"F10"}],
     [keys_down |-> {"F11"}, keys_pressed |-> {"F11"}],
     [keys_down |-> {"F10", "F11"}, keys_pressed |-> {"F10", "F11"}]}

StartReplayTick == Tick(ReplayFrames, MaxTicks)

NextReplay == StartReplayTick \/ RunStage \/ Drain

SpecReplay == Init /\ [][NextReplay]_vars

----------------------------------------------------------------------------
(* Optional inputs: the stages after Input run on a tick context whose       *)
(* intent may be absent, with or without a CPU controller attached.          *)

\* the intent the stages find: none, or one built from held and pressed keys
OptionalIntents ==
    {<<>>}
    \cup {<<build_intent([input_frame |-> f])>> :
             f \in {[keys_down |-> {"S", "UP"}, keys_pressed |-> {"T"}],
                    [keys_down |-> {"W", "DOWN"}, keys_pressed |-> {"ESCAPE", "F10"}]}}

OptionalFrames ==
    {NoFrame,
     [keys_down |-> {"W", "DOWN"}, keys_pressed |-> {"ESCAPE", "T", "F10"}]}

InitOptional ==
    /\ \E pz \in BOOLEAN, v \in SlowBallVels :
         LET w0 == PongWorld(VW, VH, CpuConfig)
             h0 == [PongHeap EXCEPT ![w0.ball.vel] = [vx |-> FP(v[1]), vy |-> FP(v[2])]]
             m0 == [world |-> w0, heap |-> h0, ctx |-> IdleCtx, commands |-> <<>>,
                    audio |-> <<>>]
             m1 == IF pz THEN Freeze(m0) ELSE m0
         IN /\ world = m1.world
            /\ heap = m1.heap
            /\ scenes = IF pz THEN <<"pong", "pause">> ELSE <<"pong">>
    /\ \E f \in OptionalFrames, i \in OptionalIntents :
         ctx = [input_frame |-> f, dt |-> 160, intent |-> i, draw_ops |-> <<>>]
    /\ \E a \in BOOLEAN, off \in AimOffsets :
         cpu = [attached |-> a, side |-> "RIGHT", config |-> CpuConfig, aim_offset_y |-> off]
    /\ commands = <<>>
    /\ audio = <<>>
    /\ capture = [replay_recording |-> FALSE, replay_playing |-> FALSE,
                  video_recording |-> FALSE]
    /\ pc = StageIndex("pong_time_scale")
    /\ ran = <<>>
    /\ pre = Snapshot("tick")
    /\ start = TickSnapshot(ctx.dt)
    /\ frozen = Snapshot("on_enter")
    /\ ticks = 1
    /\ cheated = 0
    /\ hits = <<>>

SpecOptional == InitOptional /\ [][RunStage]_vars

----------------------------------------------------------------------------
(* A rally: the game at 20 frames a second, the ball slow enough per tick to *)
(* be caught by the paddles, the player moving the left paddle or not, the   *)
(* cheats available.                                                         *)

RallyFrames ==
    {NoFrame,
     [keys_down |-> {"W"}, keys_pressed |-> {}],
     [keys_down |-> {"S"}, keys_pressed |-> {}]}

\* frame time, in 1/1600 s: 0.05 s
RallyDts == {80}

StartRallyTick == TickWith(RallyFrames, RallyDts, MaxRallyTicks)

NextRally == StartRallyTick \/ RunStage \/ Drain \/ Cheat

SpecRally == Init /\ [][NextRally]_vars

----------------------------------------------------------------------------
(* The right paddle's keys: the game with the CPU controller on the right    *)
(* paddle and the player holding any of W, S, UP and DOWN.                   *)

RightKeySets == SUBSET {"UP", "DOWN"}

RightKeyFrames ==
    {[keys_down |-> l \cup r, keys_pressed |-> {}] :
        l \in {{}, {"W"}, {"S"}}, r \in RightKeySets}

StartRightKeysTick == TickWith(RightKeyFrames, RallyDts, MaxTicks)

NextRightKeys == StartRightKeysTick \/ RunStage

SpecRightKeys == Init /\ [][NextRightKeys]_vars

\* SystemPipeline.step on machine m from stage k on, to the end of the tick
RECURSIVE RunFrom(_, _, _, _)
RunFrom(k, m, cap, c) ==
    IF k > Len(systems) THEN m
    ELSE LET m2 == StageStep(systems[k].name, m, cap, c)
         IN RunFrom(k + 1, [m2 EXCEPT !.heap = Collect(m2.world, m2.heap)], cap, c)

\* the machine a tick with input snapshot f begins with, from the state the
\* last tick began with
TickMachine(f) ==
    [world |-> start.world, heap |-> start.heap,
     ctx |-> [input_frame |-> f, dt |-> start.dt, intent |-> <<>>, draw_ops |-> <<>>],
     commands |-> start.commands, audio |-> <<>>]

----------------------------------------------------------------------------
(* The slow-motion key: the game with S, T or ESCAPE pressed in a tick, the  *)
(* host draining the queue, the cheats and the pause menu available.         *)

SlowKeyFrames ==
    {NoFrame,
     [keys_down |-> {"S"}, keys_pressed |-> {"S"}],
     [keys_down |-> {"S", "T"}, keys_pressed |-> {"S", "T"}],
     [keys_down |-> {}, keys_pressed |-> {"ESCAPE"}]}

StartSlowKeyTick == Tick(SlowKeyFrames, MaxTicks)

NextSlowKey == StartSlowKeyTick \/ RunStage \/ Drain \/ Cheat \/ PauseMenu

SpecSlowKey == Init /\ [][NextSlowKey]_vars

----------------------------------------------------------------------------
(* Properties *)

\* the tick's last stage has just run and nothing has happened since
TickEnded == pc = 0 /\ pre.op = "pong_render"

IntentOf(c) == c.intent[1]

\* what a paused tick must leave alone: positions, score and trail
Frame(w) ==
    [ball |-> <<w.ball.x, w.ball.y>>,
     left |-> <<w.left_paddle.x, w.left_paddle.y>>,
     right |-> <<w.right_paddle.x, w.right_paddle.y>>,
     score |-> w.score,
     trail |-> w.trail]

\* the velocities of the ball, the left paddle and the right paddle
Velocities(w, h) == <<h[w.ball.vel], h[w.left_paddle.vel], h[w.right_paddle.vel]>>

\* the saved velocities; only meaningful when all three references are set
SavedVelocities(w, h) == <<h[w.saved_ball_vel], h[w.saved_left_vel], h[w.saved_right_vel]>>

SavedRefs(w) == {w.saved_ball_vel, w.saved_left_vel, w.saved_right_vel}

MovementStages ==
    {"pong_paddles", "pong_ball_move", "pong_trail_capture", "pong_collision", "pong_rules"}

\* C1: a tick that ends paused (the tick that pauses included) leaves the ball
\* position, both paddle positions, the score and the trail as they were when
\* it began, and each of Paddle movement, Ball movement, Trail capture,
\* Collision and Rules changes nothing when it runs paused.
C1_PausedTickFrozen ==
    /\ (TickEnded /\ world.paused) => Frame(world) = Frame(start.world)
    /\ (pre.op \in MovementStages /\ pre.world.paused) =>
           (world = pre.world /\ heap = pre.heap)

\* the tick that paused ended, with W held in it and the trail being captured
C1_Witness ==
    /\ TickEnded
    /\ world.paused
    /\ ~start.world.paused
    /\ start.world.trail_mode
    /\ "W" \in ctx.input_frame.keys_down

\* C2: the Pause stage run with intent.pause and the world not paused sets
\* paused, saves the three velocities as they were, zeroes the three live
\* velocities and appends exactly one PauseGameCommand.
C2_PauseTransition ==
    (pre.op = "pong_pause" /\ IntentOf(ctx).pause /\ ~pre.world.paused) =>
        /\ world.paused
        /\ 0 \notin SavedRefs(world)
        /\ SavedVelocities(world, heap) = Velocities(pre.world, pre.heap)
        /\ Velocities(world, heap) = <<NoVel, NoVel, NoVel>>
        /\ commands = Append(pre.commands, "PauseGameCommand")

\* the Pause stage has just paused a world whose ball and left paddle were moving
C2_Witness ==
    /\ pre.op = "pong_pause"
    /\ IntentOf(ctx).pause
    /\ ~pre.world.paused
    /\ pre.heap[pre.world.ball.vel].vx # 0
    /\ pre.heap[pre.world.left_paddle.vel].vy # 0

\* C3: with the world already paused, a tick with intent.pause changes neither
\* the snapshot, the live velocities nor the paused flag, and pushes no
\* PauseGameCommand: the Pause stage is a no-op, and so is the whole tick.
C3_PauseIdempotent ==
    /\ (pre.op = "pong_pause" /\ IntentOf(ctx).pause /\ pre.world.paused) =>
           (world = pre.world /\ heap = pre.heap /\ commands = pre.commands)
    /\ (TickEnded /\ start.world.paused /\ "ESCAPE" \in ctx.input_frame.keys_pressed) =>
           /\ world = start.world
           /\ heap = start.heap
           /\ \A i \in 1..Len(commands) : commands[i] # "PauseGameCommand"

\* a tick with the pause key pressed ended in a world that was paused before
\* it, whose snapshot holds a moving ball
C3_Witness ==
    /\ TickEnded
    /\ start.world.paused
    /\ "ESCAPE" \in ctx.input_frame.keys_pressed
    /\ heap[world.saved_ball_vel].vx # 0

\* C4: after ContinueCommand the world is not paused and the three velocities
\* are the ones in force just before the Pause transition.
C4_PauseResumeRoundTrip ==
    pre.op = "ContinueCommand" =>
        /\ ~world.paused
        /\ Velocities(world, heap) = Velocities(frozen.world, frozen.heap)

\* ContinueCommand has just run after a paused tick, the left paddle having
\* been moving when the game was paused
C4_Witness ==
    /\ pre.op = "ContinueCommand"
    /\ start.world.paused
    /\ frozen.heap[frozen.world.left_paddle.vel].vy # 0
    /\ frozen.heap[frozen.world.ball.vel].vx # 0

\* C5: the three saved-velocity fields are None whenever the world is not
\* paused (ContinueCommand consumes them).
C5_SavedNoneWhileRunning == ~world.paused => SavedRefs(world) = {0}

\* the order the stages run in, by name
RunOrder ==
    <<"pong_input", "pong_time_scale", "pong_pause", "pong_hotkeys", "pong_cpu_intent",
      "pong_paddles", "pong_ball_move", "pong_trail_capture", "pong_collision",
      "pong_rules", "pong_render">>

\* the order the stages are listed in
ListedOrder ==
    <<"pong_input", "pong_pause", "pong_hotkeys", "pong_time_scale", "pong_cpu_intent",
      "pong_paddles", "pong_ball_move", "pong_trail_capture", "pong_collision",
      "pong_rules", "pong_render">>

Centred(w) ==
    /\ w.ball.x = TruncDiv(w.viewport[1], 2) - TruncDiv(w.ball.w, 2)
    /\ w.ball.y = TruncDiv(w.viewport[2], 2) - TruncDiv(w.ball.h, 2)

\* the Rules stage has just run on a world that was not paused
RulesRan == pre.op = "pong_rules" /\ ~pre.world.paused

BallVel(w, h) == h[w.ball.vel]

\* C8: the Rules stage, not paused, with the ball's right edge left of x = 0
\* and god_mode_p1 off, adds exactly 1 to score.right, leaves score.left,
\* centres the ball and sets its velocity to (250, -200) whatever it was.
C8_LeftGoal ==
    (RulesRan /\ pre.world.ball.x + pre.world.ball.w < 0 /\ ~pre.world.god_mode_p1) =>
        /\ world.score.right = pre.world.score.right + 1
        /\ world.score.left = pre.world.score.left
        /\ Centred(world)
        /\ BallVel(world, heap) = [vx |-> FP(250), vy |-> FP(-200)]

\* a left goal was scored by a ball that left with another velocity
C8_Witness ==
    /\ RulesRan
    /\ pre.world.ball.x + pre.world.ball.w < 0
    /\ ~pre.world.god_mode_p1
    /\ BallVel(pre.world, pre.heap).vy # FP(-200)
    /\ Abs(BallVel(pre.world, pre.heap).vx) # FP(250)
    /\ world.score.right = 2

\* the scoring test's setup, with the 10x10 ball at x
ScoringCase(x) ==
    /\ RulesRan
    /\ pre.world.ball.x = FP(x)
    /\ pre.world.ball.w = FP(10)
    /\ pre.world.ball.h = FP(10)
    /\ ~pre.world.god_mode_p1
    /\ pre.world.score = [left |-> 0, right |-> 0]

Scored ==
    /\ world.score = [left |-> 0, right |-> 1]
    /\ Centred(world)
    /\ BallVel(world, heap) = [vx |-> FP(250), vy |-> FP(-200)]

\* C9 (as claimed): with the 10x10 ball at x = -1, god_mode_p1 off, not paused
\* and score 0:0, the Rules stage gives score 0:1, the ball at the viewport
\* centre and velocity exactly (250, -200).
C9_ScoringAtMinusOne == ScoringCase(-1) => Scored

\* C9 (as amended): with the 10x10 ball at x = -11, its right edge at -1, the
\* Rules stage gives score 0:1, the ball at the viewport centre and velocity
\* exactly (250, -200); at x = -1 the ball still overlaps the field and the
\* stage changes nothing.
C9_ScoringCase ==
    /\ ScoringCase(-11) => Scored
    /\ ScoringCase(-1) => (world = pre.world /\ heap = pre.heap)

\* the scoring case has happened
C9_Witness == ScoringCase(-11) /\ Scored

\* C10: the Rules stage, not paused, with the ball past the right boundary:
\* with god_mode_p2 off it adds exactly 1 to score.left, leaves score.right,
\* centres the ball and sets its velocity to (-250, -200); with god_mode_p2
\* on the score is unchanged, ball.x becomes vw - ball.width and vx negative.
C10_RightGoal ==
    (RulesRan /\ pre.world.ball.x > pre.world.viewport[1]) =>
        IF pre.world.god_mode_p2
        THEN /\ world.score = pre.world.score
             /\ world.ball.x = world.viewport[1] - world.ball.w
             /\ BallVel(world, heap).vx < 0
        ELSE /\ world.score.left = pre.world.score.left + 1
             /\ world.score.right = pre.world.score.right
             /\ Centred(world)
             /\ BallVel(world, heap) = [vx |-> FP(-250), vy |-> FP(-200)]

\* a right goal was scored by a ball that left with another velocity
C10_Witness ==
    /\ RulesRan
    /\ pre.world.ball.x > pre.world.viewport[1]
    /\ ~pre.world.god_mode_p2
    /\ BallVel(pre.world, pre.heap) # [vx |-> FP(250), vy |-> FP(-200)]
    /\ world.score.left = 3

\* C11: the Rules stage, not paused, with god_mode_p1 on and the ball wholly
\* left of x = 0 leaves the score unchanged, sets ball.x to 0 and makes vx
\* positive (its magnitude kept, or 250 if it was 0), ball y and vy untouched;
\* and whenever god_mode_p1 is on when the stage runs, score.right is unchanged.
C11_GodModeLeft ==
    /\ (RulesRan /\ pre.world.god_mode_p1 /\ OutLeft(pre.world)) =>
           LET v0 == BallVel(pre.world, pre.heap)
               v1 == BallVel(world, heap)
           IN /\ world.score = pre.world.score
              /\ world.ball.x = 0
              /\ v1.vx > 0
              /\ v1.vx = (IF v0.vx = 0 THEN FP(250) ELSE Abs(v0.vx))
              /\ world.ball.y = pre.world.ball.y
              /\ v1.vy = v0.vy
    /\ (pre.op = "pong_rules" /\ pre.world.god_mode_p1) =>
           world.score.right = pre.world.score.right

\* the god-mode bounce has turned back a ball that left with vx = 0
C11_Witness ==
    /\ RulesRan
    /\ pre.world.god_mode_p1
    /\ OutLeft(pre.world)
    /\ BallVel(pre.world, pre.heap).vx = 0
    /\ world.ball.x = 0

\* C12: score.left and score.right are non-negative integers, no stage and no
\* drained command ever lowers them, and only the Rules stage changes them.
C12_ScoreMonotone ==
    /\ world.score.left \in Nat
    /\ world.score.right \in Nat
    /\ world.score.left >= pre.world.score.left
    /\ world.score.right >= pre.world.score.right
    /\ world.score.left >= start.world.score.left
    /\ world.score.right >= start.world.score.right
    /\ pre.op # "pong_rules" => world.score = pre.world.score

\* a command was drained in a session in which a goal had been scored
C12_Witness ==
    /\ pre.op = "GodModeCommand_P1"
    /\ world.score.right > 0
    /\ world.god_mode_p1

ScoreSum(w) == w.score.left + w.score.right

\* C13: in a tick at most one goal branch fires: the two scores together rise
\* by at most 1, the ball is never out on both sides at once, a left-side
\* goal or bounce leaves score.left and puts the ball at x = 0 or the centre,
\* and a right-side goal or bounce leaves score.right and puts the ball at
\* the right boundary or the centre.
C13_OneGoalPerTick ==
    /\ ScoreSum(world) - ScoreSum(start.world) \in {0, 1}
    /\ RulesRan => ~(OutLeft(pre.world) /\ OutRight(pre.world))
    /\ (RulesRan /\ OutLeft(pre.world)) =>
           /\ world.score.left = pre.world.score.left
           /\ world.ball.x = 0 \/ Centred(world)
    /\ (RulesRan /\ OutRight(pre.world)) =>
           /\ world.score.right = pre.world.score.right
           /\ world.ball.x = world.viewport[1] - world.ball.w \/ Centred(world)

\* a left goal has been counted, once, in a world where a right exit would
\* have scored too
C13_Witness ==
    /\ RulesRan
    /\ OutLeft(pre.world)
    /\ ~pre.world.god_mode_p1
    /\ ~pre.world.god_mode_p2
    /\ ScoreSum(world) = ScoreSum(start.world) + 1

\* a Trail capture stage has just run, not paused, with trail mode on
Captured == pre.op = "pong_trail_capture" /\ ~pre.world.paused /\ pre.world.trail_mode

\* C14: the trail never holds more than 30 entries; a capture appends the
\* ball's position, and on a full buffer it drops the oldest entry first,
\* the others keeping their order ahead of the new one.
C14_TrailRing ==
    /\ Len(world.trail) <= 30
    /\ Captured =>
           LET old == pre.world.trail
               p == <<pre.world.ball.x, pre.world.ball.y>>
           IN IF Len(old) = 30
              THEN world.trail = Append(Tail(old), p)
              ELSE world.trail = Append(old, p)

\* a capture has happened on a full buffer whose two oldest entries differ
C14_Witness ==
    /\ Captured
    /\ Len(pre.world.trail) = 30
    /\ pre.world.trail[1] # pre.world.trail[2]
    /\ world.trail[30] = <<world.ball.x, world.ball.y>>

\* C15: whenever trail mode is off the trail is empty, so a ToggleTrailCommand
\* that turns trail mode on finds, and leaves, an empty buffer.
C15_TrailClearedWhenOff ==
    /\ ~world.trail_mode => world.trail = <<>>
    /\ (pre.op = "ToggleTrailCommand" /\ world.trail_mode) =>
           (pre.world.trail = <<>> /\ world.trail = <<>>)

\* ToggleTrailCommand has just turned trail mode off on a full buffer
C15_Witness ==
    /\ pre.op = "ToggleTrailCommand"
    /\ pre.world.trail_mode
    /\ Len(pre.world.trail) = TrailMaxLen
    /\ ~world.trail_mode

\* the CPU intent stage has just run
CpuRan == pre.op = "pong_cpu_intent"

\* the move the CPU intent stage wrote
CpuMove == IntentOf(ctx).move_right_paddle

\* the ball travels toward the controller's side
Approaching ==
    \/ cpu.side = "RIGHT" /\ BallVel(pre.world, pre.heap).vx > 0
    \/ cpu.side = "LEFT" /\ BallVel(pre.world, pre.heap).vx < 0

\* horizontal gap between the ball and the controlled paddle, on the reacting side
CpuGap ==
    IF cpu.side = "RIGHT"
    THEN pre.world.right_paddle.x - (pre.world.ball.x + pre.world.ball.w)
    ELSE pre.world.ball.x - (pre.world.left_paddle.x + pre.world.left_paddle.w)

\* (ball centre y + aim offset) - paddle centre y
CpuDiff ==
    LET paddle == IF cpu.side = "RIGHT" THEN pre.world.right_paddle
                  ELSE pre.world.left_paddle
    IN (pre.world.ball.y + TruncDiv(pre.world.ball.h, 2) + cpu.aim_offset_y)
       - (paddle.y + TruncDiv(paddle.h, 2))

\* C16: when the ball's vx does not point toward the controller's side (vx <= 0
\* for a RIGHT controller, vx >= 0 for a LEFT one) compute_move returns 0,
\* whatever the vertical offset and the horizontal distance.
C16_CpuIgnoresRecedingBall ==
    (CpuRan /\ ~Approaching) =>
        /\ compute_move(cpu, pre.world, pre.heap) = 0
        /\ CpuMove = 0

\* the controller stood still for a receding ball that was within its reaction
\* distance and outside its dead zone, overriding a held UP key
C16_Witness ==
    /\ CpuRan
    /\ ~Approaching
    /\ BallVel(pre.world, pre.heap).vx # 0
    /\ CpuGap <= cpu.config.reaction_distance
    /\ CpuDiff > cpu.config.dead_zone
    /\ pre.intent[1].move_right_paddle = -1
    /\ CpuMove = 0

\* C17: for an approaching ball the move is 0 if the gap exceeds
\* reaction_distance; otherwise 0 when |diff| < dead_zone, +1 when
\* diff >= dead_zone, -1 when diff <= -dead_zone; it is always -1, 0 or +1.
C17_CpuMove ==
    /\ CpuRan => CpuMove \in {-1, 0, 1}
    /\ CpuRan => CpuMove = compute_move(cpu, pre.world, pre.heap)
    /\ (CpuRan /\ Approaching) =>
           CpuMove = (IF CpuGap > FP(180) THEN 0
                      ELSE IF Abs(CpuDiff) < FP(16) THEN 0
                      ELSE IF CpuDiff >= FP(16) THEN 1
                      ELSE -1)

\* the controller moved down for an approaching ball exactly at its reaction
\* distance and exactly at the edge of its dead zone
C17_Witness ==
    /\ CpuRan
    /\ Approaching
    /\ CpuGap = cpu.config.reaction_distance
    /\ CpuDiff = cpu.config.dead_zone
    /\ cpu.aim_offset_y # 0
    /\ CpuMove = 1

\* the intent's fields other than the two move axes and pause
IntentFlags ==
    {"toggle_slow_mo", "toggle_trail", "screenshot", "replay_recording", "play_replay",
     "video_recording"}

\* C18: the CPU intent stage changes only move_right_paddle:
\* move_left_paddle, pause and every other field of the intent are as before.
C18_IntentCarriedThrough ==
    CpuRan =>
        /\ IntentOf(ctx).move_left_paddle = pre.intent[1].move_left_paddle
        /\ IntentOf(ctx).pause = pre.intent[1].pause
        /\ \A f \in IntentFlags : IntentOf(ctx)[f] = pre.intent[1][f]

\* the Paddle movement stage has just run on a world that was not paused
PaddlesRan == pre.op = "pong_paddles" /\ ~pre.world.paused

\* where a paddle at y with velocity vy is after dt, kept inside the viewport
ClampedY(p, vy, vh, dt) == Max(0, Min(vh - p.h, p.y + TruncDiv(vy * dt, 1600)))

\* C19: the viewport being at least as tall as a paddle, each paddle's y stays
\* in [0, viewport height - paddle height] and its x stays what it was at
\* scene entry; a Paddle movement stage that runs not paused sets each
\* paddle's vy to move axis x speed and puts the paddle where that velocity
\* takes it in the tick's dt, clamped to the viewport.
C19_PaddleContainment ==
    LET vh == world.viewport[2]
        left == world.left_paddle
        right == world.right_paddle
    IN /\ vh >= left.h /\ vh >= right.h
       /\ 0 <= left.y /\ left.y <= vh - left.h
       /\ 0 <= right.y /\ right.y <= vh - right.h
       /\ left.x = FP(20)
       /\ right.x = world.viewport[1] - FP(20) - right.w
       /\ PaddlesRan =>
              /\ heap[left.vel].vy = pre.intent[1].move_left_paddle * left.speed
              /\ heap[right.vel].vy = pre.intent[1].move_right_paddle * right.speed
              /\ left.y = ClampedY(pre.world.left_paddle, heap[left.vel].vy, vh, ctx.dt)
              /\ right.y = ClampedY(pre.world.right_paddle, heap[right.vel].vy, vh, ctx.dt)

\* the left paddle, driven up past the top of the viewport, was stopped at
\* y = 0 while the CPU moved the right paddle
C19_Witness ==
    /\ PaddlesRan
    /\ pre.intent[1].move_left_paddle = -1
    /\ pre.world.left_paddle.y
           + TruncDiv(heap[world.left_paddle.vel].vy * ctx.dt, 1600) < 0
    /\ world.left_paddle.y = 0
    /\ world.right_paddle.y # pre.world.right_paddle.y

\* the Collision stage has just run on a world that was not paused
CollisionRan == pre.op = "pong_collision" /\ ~pre.world.paused

\* the ball's and the paddle's vertical extents overlap
VerticallyOverlapping(ball, paddle) ==
    ball.y < paddle.y + paddle.h /\ paddle.y < ball.y + ball.h

\* in this tick the ball, moving left, went from right of the left paddle's
\* right edge to left of it, level with the paddle
CrossedLeftPaddle ==
    LET before == start.world.ball
        after == pre.world.ball
        paddle == pre.world.left_paddle
    IN /\ BallVel(pre.world, pre.heap).vx < 0
       /\ before.x >= paddle.x + paddle.w
       /\ after.x < paddle.x + paddle.w
       /\ VerticallyOverlapping(after, paddle)

\* the same for the right paddle's left edge and a ball moving right
CrossedRightPaddle ==
    LET before == start.world.ball
        after == pre.world.ball
        paddle == pre.world.right_paddle
    IN /\ BallVel(pre.world, pre.heap).vx > 0
       /\ before.x + before.w <= paddle.x
       /\ after.x + after.w > paddle.x
       /\ VerticallyOverlapping(after, paddle)

\* C20: in a tick that is not paused, a ball that crosses a paddle's leading
\* edge level with the paddle leaves the Collision stage flush against that
\* edge with vx pointing away from the paddle, whatever dt and its speed.
C20_NoTunnelling ==
    /\ (CollisionRan /\ CrossedLeftPaddle) =>
           /\ world.ball.x = world.left_paddle.x + world.left_paddle.w
           /\ BallVel(world, heap).vx > 0
    /\ (CollisionRan /\ CrossedRightPaddle) =>
           /\ world.ball.x = world.right_paddle.x - world.ball.w
           /\ BallVel(world, heap).vx < 0

\* the ball's velocity when the Collision stage began, and the ball as the
\* wall bounce left it: y is all the bounce moves, and the paddle test keeps y
BallVelBefore == BallVel(pre.world, pre.heap)

BallAfterBounce == [pre.world.ball EXCEPT !.y = world.ball.y]

\* the Collision stage found the ball beyond the top or the bottom bound
WallBounced ==
    /\ CollisionRan
    /\ \/ pre.world.ball.y < 0
       \/ pre.world.ball.y + pre.world.ball.h > pre.world.viewport[2]

\* the Collision stage found the ball over the paddle it was travelling toward
HitLeftPaddle ==
    CollisionRan /\ BallVelBefore.vx < 0 /\ intersects(BallAfterBounce, pre.world.left_paddle)

HitRightPaddle ==
    CollisionRan /\ BallVelBefore.vx > 0 /\ intersects(BallAfterBounce, pre.world.right_paddle)

BallYInside(w) == 0 <= w.ball.y /\ w.ball.y <= w.viewport[2] - w.ball.h

\* C21 (as claimed): whenever the Collision stage finds the ball beyond the top
\* or the bottom bound, after the stage vy is the opposite of what it was and
\* ball.y lies in [0, viewport height - ball height]; ball.y is in that range
\* at the end of every tick.
C21_WallBounceFlipsVy ==
    /\ WallBounced =>
           (BallVel(world, heap).vy = -BallVelBefore.vy /\ BallYInside(world))
    /\ TickEnded => BallYInside(world)

\* C21 (as amended): the same, except that when the ball also hits a paddle in
\* that stage its vy is the one the paddle gives it, not the reflected one.
C21_WallBounce ==
    /\ WallBounced => BallYInside(world)
    /\ (WallBounced /\ ~HitLeftPaddle /\ ~HitRightPaddle) =>
           BallVel(world, heap).vy = -BallVelBefore.vy
    /\ TickEnded => BallYInside(world)

\* the ball, come in above the top bound with no paddle in its way, left the
\* stage at y = 0 travelling down
C21_Witness ==
    /\ WallBounced
    /\ ~HitLeftPaddle
    /\ ~HitRightPaddle
    /\ pre.world.ball.y < 0
    /\ BallVelBefore.vy < 0
    /\ world.ball.y = 0
    /\ BallVel(world, heap).vy > 0

\* the render description: centre line, left paddle, right paddle, trail, ball, score
RenderOrder ==
    <<"DrawCenterLine", "DrawLeftPaddle", "DrawRightPaddle", "DrawTrail", "DrawBall",
      "DrawScore">>

\* C22: the Render stage runs in every tick, paused or not, leaves the draw
\* operations centre line, left paddle, right paddle, trail, ball, score in
\* that order, and changes nothing of the world or the velocities.
C22_RenderReadsOnly ==
    /\ pre.op = "pong_render" =>
           /\ ctx.draw_ops = RenderOrder
           /\ world = pre.world
           /\ heap = pre.heap
    /\ (pc = 0 /\ ticks > 0) =>
           /\ ran # <<>>
           /\ ran[Len(ran)] = "pong_render"
           /\ ctx.draw_ops = RenderOrder

\* a tick that began and ended paused has been rendered, the trail on and
\* not empty
C22_Witness ==
    /\ TickEnded
    /\ start.world.paused
    /\ world.paused
    /\ world.trail_mode
    /\ world.trail # <<>>
    /\ ctx.draw_ops = RenderOrder

\* how many times sound `name` was played in the tick
Played(name) == Cardinality({i \in 1..Len(audio) : audio[i] = name})

\* 1.03 x |vx|
SpedUp(vx) == TruncDiv(Abs(vx) * 103, 100)

\* C23: when the Collision stage finds the ball over the paddle it travels
\* toward, the ball is put flush against that paddle's facing edge, vx becomes
\* 1.03 x |vx| pointing away from the paddle, and exactly one "paddle_hit"
\* sound is played.
C23_PaddleHit ==
    /\ HitLeftPaddle =>
           /\ world.ball.x = world.left_paddle.x + world.left_paddle.w
           /\ BallVel(world, heap).vx = SpedUp(BallVelBefore.vx)
           /\ BallVel(world, heap).vx > 0
           /\ Played("paddle_hit") = 1
    /\ HitRightPaddle =>
           /\ world.ball.x = world.right_paddle.x - world.ball.w
           /\ BallVel(world, heap).vx = -SpedUp(BallVelBefore.vx)
           /\ BallVel(world, heap).vx < 0
           /\ Played("paddle_hit") = 1

\* the ball, travelling right at 250, has been turned back by the right paddle
\* it had sunk into
C23_Witness ==
    /\ HitRightPaddle
    /\ BallVelBefore.vx = FP(250)
    /\ pre.world.ball.x + pre.world.ball.w > pre.world.right_paddle.x
    /\ world.ball.x < pre.world.ball.x
    /\ audio = <<"paddle_hit">>

\* the paddle the ball has hit
HitPaddle == IF HitLeftPaddle THEN world.left_paddle ELSE world.right_paddle

\* clamp(n x 220 + paddle.vy x 0.30, -400, 400), n = clamp(offset / d, -1, 1), for
\* the ball and paddle as the stage left them; n x 220 is computed over d
InfluencedVy ==
    LET paddle == HitPaddle
        d == IF paddle.h = 0 THEN FP(1) ELSE TruncDiv(paddle.h, 2)
        offset == (world.ball.y + TruncDiv(world.ball.h, 2))
                  - (paddle.y + TruncDiv(paddle.h, 2))
        n_times_d == IF offset > d THEN d ELSE IF offset < -d THEN -d ELSE offset
        vy == TruncDiv(n_times_d * FP(220), d) + TruncDiv(heap[paddle.vel].vy * 30, 100)
    IN IF vy > FP(400) THEN FP(400) ELSE IF vy < -FP(400) THEN -FP(400) ELSE vy

\* C24: after a paddle hit the ball's vy is clamp(n x 220 + paddle.vy x 0.30,
\* -400, 400) with n = clamp((ball centre y - paddle centre y) / d, -1, 1) and
\* d half the paddle height, or 1 for a paddle of height 0; the vy the ball
\* had does not enter into it.
C24_PaddleInfluence ==
    (HitLeftPaddle \/ HitRightPaddle) => BallVel(world, heap).vy = InfluencedVy

\* a moving paddle of height 0 has been hit by a ball that had a vy of its own
C24_Witness ==
    /\ HitLeftPaddle
    /\ world.left_paddle.h = 0
    /\ heap[world.left_paddle.vel].vy # 0
    /\ BallVelBefore.vy # 0
    /\ BallVel(world, heap).vy = InfluencedVy

\* the sounds of a Collision stage in which the wall bounce and the paddle hit
\* happened or not, the wall first
CollisionSounds(wall, paddle) ==
    (IF wall THEN <<"wall_hit">> ELSE <<>>) \o (IF paddle THEN <<"paddle_hit">> ELSE <<>>)

\* C25: in the Collision stage the wall bounce comes before the paddle test,
\* and the paddle test goes by the sign of vx: with vx < 0 only the left
\* paddle can act, with vx > 0 only the right one, with vx = 0 neither; a
\* paddle the ball is not travelling toward neither moves nor reflects it,
\* even if their rectangles overlap.
C25_PaddleInDirectionOfTravel ==
    CollisionRan =>
        /\ audio = CollisionSounds(WallBounced, HitLeftPaddle \/ HitRightPaddle)
        /\ ~(HitLeftPaddle \/ HitRightPaddle) =>
               /\ world.ball.x = pre.world.ball.x
               /\ BallVel(world, heap).vx = BallVelBefore.vx
        /\ HitLeftPaddle => world.ball.x = world.left_paddle.x + world.left_paddle.w
        /\ HitRightPaddle => world.ball.x = world.right_paddle.x - world.ball.w

\* a ball lying over the left paddle and travelling right has been left alone
C25_Witness ==
    /\ CollisionRan
    /\ BallVelBefore.vx > 0
    /\ intersects(BallAfterBounce, pre.world.left_paddle)
    /\ world.ball.x = pre.world.ball.x
    /\ BallVel(world, heap).vx = BallVelBefore.vx
    /\ Played("paddle_hit") = 0

\* dt multiplied by the world's slow_mo_scale
Scaled(dt, w) == TruncDiv(dt * w.slow_mo_scale, 100)

\* the stages other than Time-scale
OtherStages == {StageNames[i] : i \in 1..Len(StageNames)} \ {"pong_time_scale"}

\* C26: the Time-scale stage multiplies the tick's dt by slow_mo_scale exactly
\* when the world is not paused and slow_mo is on; no other stage assigns dt,
\* so from Paddle movement on every stage sees the host's dt, scaled or not
\* as the Time-scale stage left it.
C26_TimeScale ==
    /\ pre.op = "pong_time_scale" =>
           ctx.dt = (IF ~pre.world.paused /\ pre.world.slow_mo
                     THEN Scaled(pre.dt, pre.world) ELSE pre.dt)
    /\ pre.op \in OtherStages => ctx.dt = pre.dt
    /\ (pre.op \in OtherStages /\ pre.op # "pong_input") =>
           pre.dt = (IF ~start.world.paused /\ start.world.slow_mo
                     THEN Scaled(start.dt, start.world) ELSE start.dt)

\* the Paddle movement stage has moved the left paddle in a tick of 0.1 s that
\* global slow motion had cut to 0.025 s
C26_Witness ==
    /\ PaddlesRan
    /\ pre.world.slow_mo
    /\ start.dt = 160
    /\ pre.dt = 40
    /\ world.left_paddle.y # pre.world.left_paddle.y

\* the Ball movement stage has run on a world that was not paused
BallRan == pre.op = "pong_ball_move" /\ ~pre.world.paused

\* where the ball of the snapshot is after d, in x and y
BallAfter(d) ==
    LET v == pre.heap[pre.world.ball.vel]
    IN <<pre.world.ball.x + TruncDiv(v.vx * d, 1600),
         pre.world.ball.y + TruncDiv(v.vy * d, 1600)>>

\* C27: in a tick that is not paused the ball moves by its velocity times d,
\* d being the tick's dt, multiplied by slow_mo_scale when slow_ball is on;
\* the paddles move by the tick's dt whatever slow_ball is; with slow_mo and
\* slow_ball both on, d is the host's dt times slow_mo_scale twice.
C27_SlowBall ==
    /\ BallRan =>
          /\ <<world.ball.x, world.ball.y>> =
                BallAfter(IF pre.world.slow_ball THEN Scaled(pre.dt, pre.world) ELSE pre.dt)
          /\ (pre.world.slow_mo /\ pre.world.slow_ball /\ ~start.world.paused) =>
                <<world.ball.x, world.ball.y>> =
                   BallAfter(Scaled(Scaled(start.dt, start.world), start.world))
    /\ (PaddlesRan /\ pre.intent # <<>>) =>
          LET vh == pre.world.viewport[2]
          IN /\ world.left_paddle.y =
                   ClampedY(pre.world.left_paddle,
                            heap[world.left_paddle.vel].vy, vh, pre.dt)
             /\ world.right_paddle.y =
                   ClampedY(pre.world.right_paddle,
                            heap[world.right_paddle.vel].vy, vh, pre.dt)

\* the ball has moved in a tick of 0.1 s with both slow motions on: by its
\* velocity times 0.00625 s, and not by what 0.025 s would give
C27_Witness ==
    /\ BallRan
    /\ pre.world.slow_mo
    /\ pre.world.slow_ball
    /\ start.dt = 160
    /\ world.ball.x # pre.world.ball.x
    /\ <<world.ball.x, world.ball.y>> = BallAfter(10)
    /\ <<world.ball.x, world.ball.y>> # BallAfter(40)

\* (high key held ? 1 : 0) - (low key held ? 1 : 0), case by case
Axis(down, low, high) ==
    IF high \in down /\ low \notin down THEN 1
    ELSE IF low \in down /\ high \notin down THEN -1
    ELSE 0

\* C28: the Input stage leaves the world as it was and sets a new intent: each
\* move axis is -1, 0 or +1 by the keys held (0 with both keys of a paddle
\* held), and pause and the other one-shot flags are true exactly when their
\* key is among the keys pressed in this frame.
C28_InputIntent ==
    pre.op = "pong_input" =>
       /\ world = pre.world
       /\ heap = pre.heap
       /\ Len(ctx.intent) = 1
       /\ LET i == ctx.intent[1]
              down == ctx.input_frame.keys_down
              pressed == ctx.input_frame.keys_pressed
          IN /\ i.move_left_paddle \in {-1, 0, 1}
             /\ i.move_right_paddle \in {-1, 0, 1}
             /\ i.move_left_paddle = Axis(down, "W", "S")
             /\ i.move_right_paddle = Axis(down, "UP", "DOWN")
             /\ i.pause <=> "ESCAPE" \in pressed
             /\ i.toggle_slow_mo <=> "S" \in pressed
             /\ i.toggle_trail <=> "T" \in pressed
             /\ i.screenshot <=> "F9" \in pressed
             /\ i.replay_recording <=> "F10" \in pressed
             /\ i.play_replay <=> "F11" \in pressed
             /\ i.video_recording <=> "F12" \in pressed

\* the Input stage has run with W and S both held and ESCAPE held from an
\* earlier frame: the left axis is 0 and pause is not asked for
C28_Witness ==
    /\ pre.op = "pong_input"
    /\ {"W", "S", "ESCAPE"} \subseteq ctx.input_frame.keys_down
    /\ "ESCAPE" \notin ctx.input_frame.keys_pressed
    /\ Len(ctx.intent) = 1
    /\ ctx.intent[1].move_left_paddle = 0
    /\ ~ctx.intent[1].pause

\* the commands the last stage appended to the queue
Pushed == SubSeq(commands, Len(pre.commands) + 1, Len(commands))

\* in the sequence cs, every `first` is right before a `second`
RightBefore(cs, first, second) ==
    \A k \in 1..Len(cs) :
        cs[k] = second => (k > 1 /\ cs[k - 1] = first)

\* the host has drained the queue of a tick
Drained == pc = 0 /\ commands = <<>>

StageRan == \E k \in 1..Len(StageNames) : pre.op = StageNames[k]

\* sequence a is the beginning of sequence b
IsPrefix(a, b) == Len(a) <= Len(b) /\ SubSeq(b, 1, Len(a)) = a

\* C30: the Hotkeys stage appends commands to the queue and changes nothing
\* of the world; no stage changes trail_mode, so the Trail capture and Render
\* stages of a tick work on the trail_mode the tick began with and on the
\* buffer as it then was (plus what Trail capture itself appends); trail_mode
\* changes only when the host executes a ToggleTrailCommand, and the buffer
\* only then or by a capture.
C30_HotkeysOnlyQueue ==
    /\ pre.op = "pong_hotkeys" =>
           /\ world = pre.world
           /\ heap = pre.heap
           /\ IsPrefix(pre.commands, commands)
           /\ (ctx.intent # <<>> /\ ctx.intent[1].toggle_trail) =>
                  \E k \in 1..Len(Pushed) : Pushed[k] = "ToggleTrailCommand"
    /\ StageRan => world.trail_mode = start.world.trail_mode
    /\ pre.op = "pong_trail_capture" => pre.world.trail = start.world.trail
    /\ pre.op = "pong_render" =>
           \/ world.trail = start.world.trail
           \/ /\ start.world.trail_mode
              /\ world.trail # <<>>
              /\ SubSeq(world.trail, 1, Len(world.trail) - 1) =
                    (IF Len(start.world.trail) >= TrailMaxLen
                     THEN Tail(start.world.trail) ELSE start.world.trail)
    /\ world.trail_mode # pre.world.trail_mode => pre.op = "ToggleTrailCommand"
    /\ world.trail # pre.world.trail => pre.op \in {"ToggleTrailCommand", "pong_trail_capture"}

\* a tick in which T was pressed with the trail on has been rendered: the
\* command is queued, the trail is still on and has grown by the capture
C30_Witness ==
    /\ pre.op = "pong_render"
    /\ "T" \in ctx.input_frame.keys_pressed
    /\ \E k \in 1..Len(commands) : commands[k] = "ToggleTrailCommand"
    /\ start.world.trail_mode
    /\ world.trail_mode
    /\ Len(world.trail) = Len(start.world.trail) + 1

\* the stages that read the tick's intent
IntentStages == {"pong_pause", "pong_hotkeys", "pong_cpu_intent", "pong_paddles"}

\* C31: a stage that reads the intent and finds none leaves the world, the
\* velocities, the intent and the command queue as they were; the CPU intent
\* stage without a controller leaves the intent as it was.
C31_MissingInputsNoOp ==
    /\ (pre.op \in IntentStages /\ pre.intent = <<>>) =>
           /\ world = pre.world
           /\ heap = pre.heap
           /\ ctx.intent = <<>>
           /\ commands = pre.commands
    /\ (pre.op = "pong_cpu_intent" /\ ~cpu.attached) =>
           /\ ctx.intent = pre.intent
           /\ world = pre.world
           /\ heap = pre.heap

\* the four stages have run with no intent on a running world, ESCAPE, T and
\* F10 pressed and W held: nothing is queued, paused or moved
C31_Witness ==
    /\ pre.op = "pong_paddles"
    /\ pre.intent = <<>>
    /\ ran = <<"pong_time_scale", "pong_pause", "pong_hotkeys", "pong_cpu_intent",
               "pong_paddles">>
    /\ {"ESCAPE", "T", "F10"} \subseteq ctx.input_frame.keys_pressed
    /\ "W" \in ctx.input_frame.keys_down
    /\ cpu.attached
    /\ ~world.paused
    /\ commands = <<>>
    /\ world = start.world

\* the three live velocity objects of w
LiveRefs(w) == <<w.ball.vel, w.left_paddle.vel, w.right_paddle.vel>>

\* C32: while the world is paused the ball's and both paddles' velocities are
\* (0, 0) and the three saved velocities are present; a stage or a command
\* other than ContinueCommand that runs on a paused world leaves the three
\* velocities, and the objects holding them, as they were.
C32_PausedVelocitiesZero ==
    /\ world.paused =>
           /\ Velocities(world, heap) = <<NoVel, NoVel, NoVel>>
           /\ 0 \notin SavedRefs(world)
    /\ (pre.world.paused /\ pre.op # "ContinueCommand") =>
           /\ LiveRefs(world) = LiveRefs(pre.world)
           /\ Velocities(world, heap) = Velocities(pre.world, pre.heap)

\* the Paddle movement stage has run on a paused world with W held, the
\* snapshot holding a moving ball
C32_Witness ==
    /\ pre.op = "pong_paddles"
    /\ pre.world.paused
    /\ start.world.paused
    /\ IntentOf(ctx).move_left_paddle = -1
    /\ heap[world.saved_ball_vel].vx # 0
    /\ heap[world.left_paddle.vel] = NoVel

\* the Pause transition before which `frozen` was taken was not the first
SecondPause == frozen.op # "on_enter" /\ frozen.earlier # <<>>

\* C33: a Pause transition that follows an earlier pause and resume saves the
\* velocities in force just before it, in objects that are none of the live
\* ones it then zeroes, and the ContinueCommand that follows restores exactly
\* those velocities.
C33_RepeatedPauseResume ==
    /\ (pre.op = "pong_pause" /\ ~pre.world.paused /\ world.paused /\ SecondPause) =>
           /\ SavedVelocities(world, heap) = Velocities(pre.world, pre.heap)
           /\ SavedVelocities(world, heap) = Velocities(frozen.world, frozen.heap)
           /\ Velocities(world, heap) = <<NoVel, NoVel, NoVel>>
    /\ world.paused =>
           SavedRefs(world) \cap {LiveRefs(world)[k] : k \in 1..3} = {}
    /\ (pre.op = "ContinueCommand" /\ SecondPause) =>
           /\ ~world.paused
           /\ Velocities(world, heap) = Velocities(frozen.world, frozen.heap)

\* the second ContinueCommand has run: the velocities it restored are not the
\* ones of the first pause, and ball and left paddle are moving
C33_Witness ==
    /\ pre.op = "ContinueCommand"
    /\ SecondPause
    /\ Velocities(world, heap) # frozen.earlier[1]
    /\ heap[world.ball.vel].vx # 0
    /\ heap[world.left_paddle.vel].vy # 0

\* the Rules stage has counted a goal
GoalCounted == RulesRan /\ ScoreSum(world) # ScoreSum(pre.world)

\* C34: while the world is not paused the ball's |vx| is at least 250: it is
\* 250 at scene entry and after a goal, a paddle hit multiplies it by 1.03, a
\* wall bounce and a god-mode bounce keep it, nothing else a running stage
\* does changes vx, and ContinueCommand restores the value from before the
\* pause.
C34_HorizontalSpeedFloor ==
    /\ ~world.paused => Abs(BallVel(world, heap).vx) >= FP(250)
    /\ pre.op = "on_enter" => BallVel(world, heap).vx = -FP(250)
    /\ GoalCounted => Abs(BallVel(world, heap).vx) = FP(250)
    /\ (HitLeftPaddle \/ HitRightPaddle) =>
           Abs(BallVel(world, heap).vx) = SpedUp(BallVelBefore.vx)
    /\ (StageRan /\ ~pre.world.paused /\ ~world.paused /\ ~GoalCounted
          /\ ~HitLeftPaddle /\ ~HitRightPaddle) =>
           Abs(BallVel(world, heap).vx) = Abs(BallVelBefore.vx)
    /\ pre.op = "ContinueCommand" =>
           BallVel(world, heap).vx = BallVel(frozen.world, frozen.heap).vx

\* ContinueCommand has given back a ball that a paddle hit had sped up
C34_Witness ==
    /\ pre.op = "ContinueCommand"
    /\ ~world.paused
    /\ Abs(BallVel(world, heap).vx) > FP(250)

\* C35: the ball's |vy| is at most 400 in every state: it is -200 at scene
\* entry and after a goal, a wall bounce without a paddle hit only negates
\* it, and a paddle hit leaves it within [-400, 400].
C35_VerticalSpeedCap ==
    /\ Abs(BallVel(world, heap).vy) <= FP(400)
    /\ pre.op = "on_enter" => BallVel(world, heap).vy = -FP(200)
    /\ GoalCounted => BallVel(world, heap).vy = -FP(200)
    /\ (WallBounced /\ ~HitLeftPaddle /\ ~HitRightPaddle) =>
           BallVel(world, heap).vy = -BallVelBefore.vy
    /\ (CollisionRan /\ ~WallBounced /\ ~HitLeftPaddle /\ ~HitRightPaddle) =>
           BallVel(world, heap).vy = BallVelBefore.vy

\* a paddle hit has just given the ball a vy steeper than the 200 it is
\* served with
C35_Witness ==
    /\ HitLeftPaddle \/ HitRightPaddle
    /\ Abs(BallVel(world, heap).vy) > FP(200)

\* the ball's x lies between -ball width and the viewport width
BallXInField(w) == -w.ball.w <= w.ball.x /\ w.ball.x <= w.viewport[1]

\* C36: between ticks the ball's x lies in [-ball width, viewport width]: a
\* Rules stage that runs not paused and finds the ball wholly past the left or
\* the right boundary re-centres it (goal) or puts it back at that boundary
\* (god mode), so no tick ends with the ball out of the field.
C36_BallBackInField ==
    /\ pc = 0 => BallXInField(world)
    /\ (RulesRan /\ pre.world.ball.x + pre.world.ball.w < 0) =>
           world.ball.x = (IF pre.world.god_mode_p1 THEN 0
                           ELSE TruncDiv(world.viewport[1], 2) - TruncDiv(world.ball.w, 2))
    /\ (RulesRan /\ pre.world.ball.x > pre.world.viewport[1]) =>
           world.ball.x = (IF pre.world.god_mode_p2 THEN world.viewport[1] - world.ball.w
                           ELSE TruncDiv(world.viewport[1], 2) - TruncDiv(world.ball.w, 2))
    /\ (RulesRan /\ BallXInField(pre.world)) => world.ball.x = pre.world.ball.x

\* a tick has ended whose Rules stage found the ball past the right boundary
C36_Witness ==
    /\ TickEnded
    /\ ~world.paused
    /\ \E k \in 1..Len(ran) : ran[k] = "pong_rules"
    /\ world.ball.x = TruncDiv(world.viewport[1], 2) - TruncDiv(world.ball.w, 2)
    /\ world.score.left > 0
    /\ BallVel(world, heap).vx = -FP(250)

\* the kinds of entry of `hits` that are hits on a paddle
PaddleKinds == {"LEFT", "RIGHT"}

\* C37: after a hit on a paddle the next thing to happen to the ball's
\* direction is a hit on the other paddle or a reversal at the boundary behind
\* the other paddle (goal or god-mode bounce), so two hits on the same paddle
\* always have such an event between them and never fall in the same tick or
\* in two consecutive ticks.
C37_NoRepeatedHit ==
    /\ \A i \in 1..(Len(hits) - 1) :
          /\ hits[i].kind = "LEFT" => hits[i + 1].kind \in {"RIGHT", "TURN_RIGHT"}
          /\ hits[i].kind = "RIGHT" => hits[i + 1].kind \in {"LEFT", "TURN_LEFT"}
    /\ \A i, j \in 1..Len(hits) :
          (i < j /\ hits[i].kind \in PaddleKinds /\ hits[j].kind = hits[i].kind) =>
             hits[j].tick > hits[i].tick + 1

\* the same paddle has been hit twice with a hit on the other paddle between,
\* and again after a goal or a god-mode bounce behind the other paddle
C37_Witness ==
    /\ \E i \in 1..(Len(hits) - 2) :
          /\ hits[i].kind \in PaddleKinds
          /\ hits[i + 1].kind \in PaddleKinds
          /\ hits[i + 2].kind = hits[i].kind
    /\ \E i \in 1..(Len(hits) - 2) :
          /\ hits[i].kind \in PaddleKinds
          /\ hits[i + 1].kind \in {"TURN_LEFT", "TURN_RIGHT"}
          /\ hits[i + 2].kind = hits[i].kind

\* the last tick's input snapshot with r for the right paddle's keys held
WithRightKeys(r) ==
    [ctx.input_frame EXCEPT !.keys_down = (@ \ {"UP", "DOWN"}) \cup r]

\* C38: with the CPU controller on the right paddle, a tick ends in the same
\* world, velocities and command queue whichever of UP and DOWN were held in
\* it; runs that differ only in those keys therefore agree after every tick.
C38_CpuIgnoresRightKeys ==
    (TickEnded /\ cpu.attached /\ cpu.side = "RIGHT") =>
        \A r \in RightKeySets :
            LET out == RunFrom(1, TickMachine(WithRightKeys(r)), capture, cpu)
            IN /\ out.world = world
               /\ out.heap = heap
               /\ out.commands = commands

\* a tick has ended in which DOWN was held and the controller moved the right
\* paddle up
C38_Witness ==
    /\ TickEnded
    /\ cpu.attached
    /\ "DOWN" \in ctx.input_frame.keys_down
    /\ "UP" \notin ctx.input_frame.keys_down
    /\ world.right_paddle.y < start.world.right_paddle.y

\* C39: world.slow_mo is never true: no stage queues a ToggleSlowMoCommand,
\* whatever toggle_slow_mo the Input stage produced, the slow-motion cheat's
\* command toggles slow_ball and leaves slow_mo, and the Time-scale stage
\* never changes dt.
C39_SlowMoNeverOn ==
    /\ ~world.slow_mo
    /\ \A k \in 1..Len(commands) : commands[k] # "ToggleSlowMoCommand"
    /\ pre.op = "SlowMoCommand" =>
           /\ world.slow_ball = ~pre.world.slow_ball
           /\ world.slow_mo = pre.world.slow_mo
    /\ pre.op = "pong_time_scale" => ctx.dt = start.dt
    /\ StageRan => ctx.dt = start.dt

\* a tick in which S was pressed has ended after the slow-motion cheat: the
\* ball is slowed, the world is not, and nothing is queued
C39_Witness ==
    /\ TickEnded
    /\ "S" \in ctx.input_frame.keys_pressed
    /\ world.slow_ball
    /\ ~world.slow_mo
    /\ ~world.paused
    /\ commands = <<>>

====
